---------------------------- MODULE Spec2Model ----------------------------
(***************************************************************************)
(* A model of the LintasKode admin panel's client-state layer:             *)
(*                                                                         *)
(*   - the session store (hooks/useAdminSession.ts) as it is used by the   *)
(*     login page (app/admin/page.tsx) and the protected layout            *)
(*     (components/admin-layout), under specification Spec;                *)
(*   - the base-URL normalisation of lib/api, under SpecBase;              *)
(*   - the transport adapter apiFetch of lib/api, under SpecApi.           *)
(*                                                                         *)
(* Strings whose characters matter (URLs) are sequences of one-character   *)
(* strings.  A JSON text is the sequence of its lexical tokens.            *)
(***************************************************************************)
EXTENDS Integers, Sequences, FiniteSets, TLC

(***************************************************************************)
(* JavaScript values, as far as the session store meets them.              *)
(* An object is the sequence of its members in insertion order.            *)
(***************************************************************************)
NullV == [t |-> "null", s |-> "", m |-> <<>>]

UndefinedV == [t |-> "undefined", s |-> "", m |-> <<>>]

StrV(s) == [t |-> "str", s |-> s, m |-> <<>>]

ObjV(m) == [t |-> "obj", s |-> "", m |-> m]

\* true and false, as a response body can carry them.
BoolV(b) == [t |-> "bool", s |-> IF b THEN "true" ELSE "false", m |-> <<>>]

Member(k, v) == [k |-> k, v |-> v]

\* interface AdminSession { username: string }
AdminSession(u) == ObjV(<<Member("username", StrV(u))>>)

\* JavaScript truthiness: null, undefined, false and "" are falsy, an object is truthy.
Truthy(v) ==
  \/ v.t = "obj"
  \/ v.t = "str" /\ v.s # ""
  \/ v.t = "bool" /\ v.s = "true"

\* null and undefined: reading a property of either throws a TypeError.
Nullish(v) == v.t \in {"null", "undefined"}

RECURSIVE Lookup(_, _, _)
\* The value of the last member of m[1..i] named k, or undefined.
Lookup(m, k, i) ==
  IF i = 0 THEN UndefinedV
  ELSE IF m[i].k = k THEN m[i].v
  ELSE Lookup(m, k, i - 1)

\* v?.k : undefined on null and undefined, and on a primitive that has no such property.
OptionalGet(v, k) ==
  IF v.t = "obj" THEN Lookup(v.m, k, Len(v.m)) ELSE UndefinedV

\* parsed?.username
OptionalUsername(v) == OptionalGet(v, "username")

(***************************************************************************)
(* JSON texts as token sequences: a punctuation token or a string literal. *)
(***************************************************************************)
Punct(s) == [q |-> FALSE, s |-> s]

Lit(s) == [q |-> TRUE, s |-> s]

StringifyScalar(v) == IF v.t = "str" THEN Lit(v.s) ELSE Punct("null")

RECURSIVE StringifyMembers(_, _)
StringifyMembers(m, i) ==
  IF i > Len(m) THEN <<>>
  ELSE (IF i > 1 THEN <<Punct(",")>> ELSE <<>>)
       \o <<Lit(m[i].k), Punct(":"), StringifyScalar(m[i].v)>>
       \o StringifyMembers(m, i + 1)

\* JSON.stringify of null, a string, or an object of scalar members.
JSONStringify(v) ==
  IF v.t = "obj" THEN <<Punct("{")>> \o StringifyMembers(v.m, 1) \o <<Punct("}")>>
  ELSE <<StringifyScalar(v)>>

IsScalarToken(tok) == tok.q \/ tok = Punct("null")

ScalarOf(tok) == IF tok.q THEN StrV(tok.s) ELSE NullV

\* Object assignment: a repeated key keeps its place and takes the new value.
PutMember(m, k, v) ==
  IF \E i \in 1..Len(m) : m[i].k = k
  THEN [i \in 1..Len(m) |-> IF m[i].k = k THEN Member(k, v) ELSE m[i]]
  ELSE Append(m, Member(k, v))

ParseFail == [ok |-> FALSE, v |-> UndefinedV]

RECURSIVE ParseMembers(_, _, _)
\* toks[i..] must be  key : scalar  followed by nothing or by  , members.
ParseMembers(toks, i, acc) ==
  IF i + 2 > Len(toks) THEN ParseFail
  ELSE IF ~(toks[i].q /\ toks[i + 1] = Punct(":") /\ IsScalarToken(toks[i + 2]))
  THEN ParseFail
  ELSE LET acc2 == PutMember(acc, toks[i].s, ScalarOf(toks[i + 2]))
       IN IF i + 2 = Len(toks) THEN [ok |-> TRUE, v |-> ObjV(acc2)]
          ELSE IF toks[i + 3] = Punct(",") THEN ParseMembers(toks, i + 4, acc2)
          ELSE ParseFail

\* JSON.parse: ok = FALSE stands for the SyntaxError it throws.
JSONParse(toks) ==
  IF Len(toks) = 0 THEN ParseFail
  ELSE IF Len(toks) = 1
  THEN IF IsScalarToken(toks[1]) THEN [ok |-> TRUE, v |-> ScalarOf(toks[1])] ELSE ParseFail
  ELSE IF toks[1] = Punct("{") /\ toks[Len(toks)] = Punct("}")
  THEN IF Len(toks) = 2 THEN [ok |-> TRUE, v |-> ObjV(<<>>)]
       ELSE ParseMembers(SubSeq(toks, 2, Len(toks) - 1), 1, <<>>)
  ELSE ParseFail


(***************************************************************************)
(* The state.  Session store and its two consumers first, then history     *)
(* variables (what the last handler called, what the tab last saved).      *)
(***************************************************************************)
VARIABLES
  storageDenied, \* the browser refuses access to localStorage (every call throws)
  storage,       \* localStorage's item under STORAGE_KEY
  route,         \* the route whose page is mounted
  pending,       \* the navigation issued and not yet committed
  mounted,       \* per consumer: its component is mounted
  admin,         \* per consumer: useState<AdminSession | null>(null)
  hydrated,      \* per consumer: useState(false)
  runs,          \* per consumer: executions of the hydration effect since mount
  value,         \* per consumer: the memoised object the hook returns
  loading,       \* login page: useState(false)
  loginError,    \* login page: useState<string | null>(null), "" for null
  loginReq,      \* a loginAdmin request of the mounted login page is in flight
  orphans,       \* loginAdmin requests in flight whose login page has unmounted
  calls,         \* history: the storage, router and console calls of the last step
  uncaught,      \* history: the error that escaped the last step, "none" if none
  lastSet,       \* history: the argument of the tab's last completed saveSession
  prevSet,       \* history: the argument of the one before it
  envPrimary,    \* process.env.NEXT_PUBLIC_BACKEND_API
  envFallback,   \* process.env.BACKEND_API
  apiLoaded,     \* lib/api has been evaluated
  apiBase,       \* API_BASE
  apiPhase,      \* apiFetch: "idle", "inflight" (awaiting fetch) or "done"
  apiOp,         \* the operation that called apiFetch
  apiRequest,    \* what apiFetch handed to fetch, if it got that far
  apiResult,     \* what apiFetch returned or threw
  apiPath,       \* the path apiFetch was called with
  apiArgs,       \* the parameters the operation was called with
  lastResponse,  \* history: the response fetch resolved with
  opResult,      \* what the operation returned or threw
  formTech,      \* job form: values.tech, the comma-separated technologies
  payloadTech,   \* job form: the tech of the payload built from the values
  server,        \* the backend's list of jobs
  jobs,          \* jobs page: useState<Job[]>([])
  jobsLoading,   \* jobs page: useState(true)
  jobsError,     \* jobs page: useState<string | null>(null), "" for null
  actionJobId,   \* jobs page: useState<number | null>(null), 0 for null
  modalOpen,     \* jobs page: useState(false)
  modalMode,     \* jobs page: useState<"create" | "edit">("create")
  selectedJob,   \* jobs page: useState<Job | null>(null)
  submitting,    \* job form: useState(false)
  modalError,    \* job form: useState<string | null>(null), "" for null
  inflight,      \* the requests of the jobs page awaiting their response, oldest first
  requests,      \* how many requests the jobs page has sent
  analyticsJobs, \* analytics page: useState<Job[]>([])
  clickDistribution \* analytics page: the clickDistribution memo as rendered

sessionVars == <<storageDenied, storage, route, pending, mounted, admin, hydrated, runs,
                 value, loading, loginError, loginReq, orphans, calls, uncaught,
                 lastSet, prevSet>>

apiVars == <<envPrimary, envFallback, apiLoaded, apiBase, apiPhase, apiOp, apiRequest,
             apiResult, apiPath, apiArgs, lastResponse, opResult>>

formVars == <<formTech, payloadTech>>

jobsVars == <<server, jobs, jobsLoading, jobsError, actionJobId, modalOpen, modalMode,
              selectedJob, submitting, modalError, inflight, requests>>

analyticsVars == <<analyticsJobs, clickDistribution>>

vars == <<sessionVars, apiVars, formVars, jobsVars, analyticsVars>>

STORAGE_KEY == "lintaskode-admin"

LoginRoute == "/admin"

DashboardRoute == "/admin/dashboard"

\* The sidebar's links.
NavItems == {"/admin/dashboard", "/admin/jobs", "/admin/analytics", "/admin/articles"}

Routes == {LoginRoute} \cup NavItems

\* The two components that call useAdminSession().
Consumers == {"login", "layout"}

\* Every protected page renders itself inside AdminLayout; the login page does not.
ConsumerOf(r) == IF r = LoginRoute THEN "login" ELSE "layout"

Usernames == {"a", "b"}

\* What loginAdmin can return: data.admin, whose username is truthy.
LoginIdentities == {AdminSession(u) : u \in Usernames}

\* Messages of the errors loginAdmin can throw.
LoginFailures == {"Failed to sign in", "bad credentials"}

NoItem == [present |-> FALSE, text |-> <<>>]

Item(text) == [present |-> TRUE, text |-> text]

UsernameText(tok) == <<Punct("{"), Lit("username"), Punct(":"), tok, Punct("}")>>

\* What the key can hold when the page loads: nothing, a record this code wrote,
\* or anything else (an older version, a user, an interrupted write).
StoredTexts ==
  { <<>>,
    <<Punct("{")>>,
    <<Punct("null")>>,
    <<Lit("a")>>,
    <<Punct("{"), Punct("}")>>,
    UsernameText(Lit("")),
    UsernameText(Punct("null")),
    UsernameText(Lit("a")),
    UsernameText(Lit("b")),
    SubSeq(UsernameText(Lit("a")), 1, 4),
    <<Punct("{"), Lit("role"), Punct(":"), Lit("a"), Punct("}")>>,
    <<Punct("{"), Lit("username"), Punct(":"), Lit("a"), Punct(","),
      Lit("role"), Punct(":"), Lit("x"), Punct("}")>> }

InitialItems == {NoItem} \cup {Item(t) : t \in StoredTexts}

Call(op, arg) == [op |-> op, arg |-> arg]

NoSet == [set |-> FALSE, v |-> NullV]

DidSet(v) == [set |-> TRUE, v |-> v]

NoNav == [set |-> FALSE, to |-> ""]

NavTo(r) == [set |-> TRUE, to |-> r]

(***************************************************************************)
(* useAdminSession: the hook's pieces as functions of what they read.      *)
(***************************************************************************)


\* ValueMemo with isAuthenticated taken from hydrated alone.
ValueMemoHydratedOnly(a, h) ==
  [admin |-> a, hydrated |-> h, isAuthenticated |-> h]

\* The value memo: what a consumer destructures from the hook.
ValueMemo(a, h) ==
  [admin |-> a, hydrated |-> h, isAuthenticated |-> h /\ a # NullV]


\* TryRestore with `if (parsed)` in place of `if (parsed?.username)`.
TryRestoreAnyValue(item, denied) ==
  IF denied THEN [threw |-> "SecurityError", setAdmin |-> FALSE, parsed |-> UndefinedV]
  ELSE IF ~item.present \/ item.text = <<>>
  THEN [threw |-> "", setAdmin |-> FALSE, parsed |-> UndefinedV]
  ELSE LET p == JSONParse(item.text)
       IN IF ~p.ok THEN [threw |-> "SyntaxError", setAdmin |-> FALSE, parsed |-> UndefinedV]
          ELSE [threw |-> "", setAdmin |-> Truthy(p.v), parsed |-> p.v]

\* The try block of the hydration effect.  threw names the exception, "" if none;
\* setAdmin says whether setAdmin(parsed) was reached.
TryRestore(item, denied) ==
  IF denied THEN [threw |-> "SecurityError", setAdmin |-> FALSE, parsed |-> UndefinedV]
  ELSE IF ~item.present \/ item.text = <<>>
  THEN [threw |-> "", setAdmin |-> FALSE, parsed |-> UndefinedV]
  ELSE LET p == JSONParse(item.text)
       IN IF ~p.ok THEN [threw |-> "SyntaxError", setAdmin |-> FALSE, parsed |-> UndefinedV]
          ELSE [threw |-> "", setAdmin |-> Truthy(OptionalUsername(p.v)), parsed |-> p.v]

\* HydrationEffect with setHydrated(true) as the try block's last statement and no
\* finally: an exception skips it.
HydrationEffectNoFinally(item, denied, a) ==
  LET r == TryRestore(item, denied)
  IN [admin |-> IF r.setAdmin THEN r.parsed ELSE a,
      hydrated |-> r.threw = "",
      calls |-> <<Call("getItem", STORAGE_KEY)>>
                \o (IF r.threw # "" THEN <<Call("warn", r.threw)>> ELSE <<>>),
      uncaught |-> "none"]

\* HydrationEffect that marks the store hydrated and never restores the identity.
HydrationEffectNoRestore(item, denied, a) ==
  LET r == TryRestore(item, denied)
  IN [admin |-> a,
      hydrated |-> TRUE,
      calls |-> <<Call("getItem", STORAGE_KEY)>>
                \o (IF r.threw # "" THEN <<Call("warn", r.threw)>> ELSE <<>>),
      uncaught |-> "none"]

\* The hydration effect: try, catch (console.warn), finally (setHydrated(true)).
\* The state updates of one effect are applied together.
HydrationEffect(item, denied, a) ==
  LET r == TryRestore(item, denied)
  IN [admin |-> IF r.setAdmin THEN r.parsed ELSE a,
      hydrated |-> TRUE,
      calls |-> <<Call("getItem", STORAGE_KEY)>>
                \o (IF r.threw # "" THEN <<Call("warn", r.threw)>> ELSE <<>>),
      uncaught |-> "none"]

\* The effect without its dependency array: it runs after every render.
HydrationEffectEveryRender(c) == mounted[c]

\* useEffect(..., []): the effect runs once, after the component has mounted.
HydrationEffectDue(c) == mounted[c] /\ runs[c] = 0

\* saveSession whose null branch clears the identity and leaves the item in place.
SaveSessionKeepsItem(session, item, denied, a) ==
  IF denied
  THEN [threw |-> "SecurityError", storage |-> item, admin |-> a, calls |-> <<>>]
  ELSE IF session # NullV
  THEN [threw |-> "", storage |-> Item(JSONStringify(session)), admin |-> session,
        calls |-> <<Call("setItem", STORAGE_KEY)>>]
  ELSE [threw |-> "", storage |-> item, admin |-> NullV,
        calls |-> <<Call("removeItem", STORAGE_KEY)>>]

\* saveSession that persists the session and forgets setAdmin(session).
SaveSessionNoSetAdmin(session, item, denied, a) ==
  IF denied
  THEN [threw |-> "SecurityError", storage |-> item, admin |-> a, calls |-> <<>>]
  ELSE IF session # NullV
  THEN [threw |-> "", storage |-> Item(JSONStringify(session)), admin |-> a,
        calls |-> <<Call("setItem", STORAGE_KEY)>>]
  ELSE [threw |-> "", storage |-> NoItem, admin |-> NullV,
        calls |-> <<Call("removeItem", STORAGE_KEY)>>]

\* saveSession, called in the browser (typeof window is never "undefined" where a
\* handler runs).  A storage call that throws ends it before setAdmin.
SaveSession(session, item, denied, a) ==
  IF denied
  THEN [threw |-> "SecurityError", storage |-> item, admin |-> a, calls |-> <<>>]
  ELSE IF session # NullV
  THEN [threw |-> "", storage |-> Item(JSONStringify(session)), admin |-> session,
        calls |-> <<Call("setItem", STORAGE_KEY)>>]
  ELSE [threw |-> "", storage |-> NoItem, admin |-> NullV,
        calls |-> <<Call("removeItem", STORAGE_KEY)>>]

\* handleSubmit that navigates first and saves the session afterwards.
LoginHandlerPushFirst(session, item, denied, a) ==
  LET r == SaveSession(session, item, denied, a)
  IN [r EXCEPT !.calls = <<Call("push", DashboardRoute)>> \o r.calls]

\* AdminLoginPage.handleSubmit after loginAdmin returned session: setSession(admin),
\* then router.push("/admin/dashboard"); an exception of the first skips the second.
LoginHandler(session, item, denied, a) ==
  LET r == SaveSession(session, item, denied, a)
  IN [r EXCEPT !.calls = IF r.threw = "" THEN r.calls \o <<Call("push", DashboardRoute)>>
                         ELSE r.calls]

\* logout that navigates first and clears the session afterwards.
LogoutHandlerPushFirst(item, denied, a) ==
  LET r == SaveSession(NullV, item, denied, a)
  IN [r EXCEPT !.calls = <<Call("push", LoginRoute)>> \o r.calls]

\* logout: saveSession(null), then router.push("/admin"); an exception of the first
\* skips the second.
LogoutHandler(item, denied, a) ==
  LET r == SaveSession(NullV, item, denied, a)
  IN [r EXCEPT !.calls = IF r.threw = "" THEN r.calls \o <<Call("push", LoginRoute)>>
                         ELSE r.calls]

(***************************************************************************)
(* The consumers' own effects, and the router.                             *)
(***************************************************************************)

\* AdminLoginPage: an authenticated visitor is sent to the dashboard.
LoginRedirectEffect(val) ==
  IF val.hydrated /\ val.isAuthenticated THEN <<Call("replace", DashboardRoute)>> ELSE <<>>

\* LayoutRedirectEffect without its test of hydrated.
LayoutRedirectEffectUnhydrated(val) ==
  IF ~val.isAuthenticated THEN <<Call("replace", LoginRoute)>> ELSE <<>>

\* AdminLayout: a hydrated visitor without a session is sent to the login page.
LayoutRedirectEffect(val) ==
  IF val.hydrated /\ ~val.isAuthenticated THEN <<Call("replace", LoginRoute)>> ELSE <<>>

\* An effect with dependencies [hydrated, isAuthenticated, router] runs again only in
\* a render where one of them changed.
RedirectEffect(c, old, new) ==
  IF old.hydrated = new.hydrated /\ old.isAuthenticated = new.isAuthenticated THEN <<>>
  ELSE IF c = "login" THEN LoginRedirectEffect(new)
  ELSE LayoutRedirectEffect(new)

\* The first run of consumer c's redirect effect, after the render of its mount.
MountEffect(c, val) == IF c = "login" THEN LoginRedirectEffect(val) ELSE LayoutRedirectEffect(val)

IsNav(call) == call.op \in {"push", "replace"}

RECURSIVE NavAfter(_, _, _)
\* The pending navigation after the router calls of cs[i..]: the last call wins, and
\* a navigation to the mounted route needs no commit.
NavAfter(cs, i, nav) ==
  IF i > Len(cs) THEN nav
  ELSE IF IsNav(cs[i])
  THEN NavAfter(cs, i + 1, IF cs[i].arg = route THEN NoNav ELSE NavTo(cs[i].arg))
  ELSE NavAfter(cs, i + 1, nav)

(***************************************************************************)
(* lib/api: the base URL.  A string is the sequence of its characters.     *)
(***************************************************************************)

\* An environment variable is unset (undefined) or holds a string.
Unset == [set |-> FALSE, s |-> <<>>]

EnvValue(s) == [set |-> TRUE, s |-> s]

WhiteSpace == {" ", "\t"}

RECURSIVE TrimStart(_)
TrimStart(s) ==
  IF s # <<>> /\ Head(s) \in WhiteSpace THEN TrimStart(Tail(s)) ELSE s

RECURSIVE TrimEnd(_)
TrimEnd(s) ==
  IF s # <<>> /\ s[Len(s)] \in WhiteSpace THEN TrimEnd(SubSeq(s, 1, Len(s) - 1)) ELSE s

\* String.prototype.trim
Trim(s) == TrimEnd(TrimStart(s))

RECURSIVE StripTrailingSlashes(_)
\* s.replace(/\/+$/, "")
StripTrailingSlashes(s) ==
  IF s # <<>> /\ s[Len(s)] = "/" THEN StripTrailingSlashes(SubSeq(s, 1, Len(s) - 1))
  ELSE s

\* String.prototype.endsWith
EndsWith(s, suffix) ==
  /\ Len(s) >= Len(suffix)
  /\ SubSeq(s, Len(s) - Len(suffix) + 1, Len(s)) = suffix

\* String.prototype.startsWith
StartsWith(s, prefix) ==
  /\ Len(s) >= Len(prefix)
  /\ SubSeq(s, 1, Len(prefix)) = prefix

ApiSuffix == <<"/", "a", "p", "i">>

\* a || b || "" : an unset variable and an empty string are falsy.
FirstTruthy(a, b) ==
  IF a.set /\ a.s # <<>> THEN a.s
  ELSE IF b.set /\ b.s # <<>> THEN b.s
  ELSE <<>>

\* const rawBase
RawBase(primary, fallback) == Trim(FirstTruthy(primary, fallback))

\* const normalizedBase
NormalizedBase(raw) == StripTrailingSlashes(raw)

\* ApiBaseOf that appends /api without looking at the suffix.
ApiBaseAlwaysAppends(normalized) == normalized \o ApiSuffix

\* const API_BASE
ApiBaseOf(normalized) ==
  IF EndsWith(normalized, ApiSuffix) THEN normalized ELSE normalized \o ApiSuffix

\* The normalisation of a base URL: API_BASE as a function of rawBase.
Normalize(raw) == ApiBaseOf(NormalizedBase(raw))

(***************************************************************************)
(* lib/api: apiFetch and the operations built on it.                       *)
(***************************************************************************)
MissingBaseMessage == "Missing BACKEND_API environment variable"

\* resolveUrl that appends the path as it was given.
ResolveUrlPathAsGiven(base, path) ==
  IF base = <<>> THEN [thrown |-> TRUE, url |-> <<>>]
  ELSE [thrown |-> FALSE, url |-> base \o path]

\* resolveUrl: thrown = TRUE stands for the Error it throws.
ResolveUrl(base, path) ==
  IF base = <<>> THEN [thrown |-> TRUE, url |-> <<>>]
  ELSE [thrown |-> FALSE,
        url |-> base \o (IF StartsWith(path, <<"/">>) THEN path ELSE <<"/">> \o path)]

JobsPath == <<"/", "j", "o", "b", "s">>

ArticlesPath == <<"/", "a", "r", "t", "i", "c", "l", "e", "s">>

AnalyticsPath == <<"/", "a", "n", "a", "l", "y", "t", "i", "c", "s">>

LoginPath == <<"/", "a", "u", "t", "h", "/", "a", "d", "m", "i", "n", "/", "l", "o", "g", "i", "n">>

StatusSuffix == <<"/", "s", "t", "a", "t", "u", "s">>

\* The job id and the article slug the operations are called with, as they print.
JobIdText == <<"7">>

SlugText == <<"n", "e", "w", "s">>

\* An optional numeric parameter: absent (undefined) or a number.
NoNum == [set |-> FALSE, n |-> 0]

Num(n) == [set |-> TRUE, n |-> n]

\* params = {} : { limit?: number; offset?: number } with neither given.
NoParams == [limit |-> NoNum, offset |-> NoNum]

RECURSIVE Digits(_)
\* Number.prototype.toString of a natural number.
Digits(n) ==
  LET chars == <<"0", "1", "2", "3", "4", "5", "6", "7", "8", "9">>
  IN IF n < 10 THEN <<chars[n + 1]>>
     ELSE Digits(n \div 10) \o <<chars[(n % 10) + 1]>>

\* if (params.limit) searchParams.set("limit", ...): a number is truthy unless it is 0.
LimitEntries(params) ==
  IF params.limit.set /\ params.limit.n # 0
  THEN <<[key |-> <<"l", "i", "m", "i", "t">>, val |-> Digits(params.limit.n)]>>
  ELSE <<>>

\* OffsetEntries with the truthiness test that limit gets: offset 0 is left out.
OffsetEntriesIfTruthy(params) ==
  IF params.offset.set /\ params.offset.n # 0
  THEN <<[key |-> <<"o", "f", "f", "s", "e", "t">>, val |-> Digits(params.offset.n)]>>
  ELSE <<>>

\* if (typeof params.offset === "number") searchParams.set("offset", ...)
OffsetEntries(params) ==
  IF params.offset.set
  THEN <<[key |-> <<"o", "f", "f", "s", "e", "t">>, val |-> Digits(params.offset.n)]>>
  ELSE <<>>

RECURSIVE QueryString(_, _)
\* URLSearchParams.prototype.toString from entry i on: key=value joined by &.
QueryString(entries, i) ==
  IF i > Len(entries) THEN <<>>
  ELSE (IF i > 1 THEN <<"&">> ELSE <<>>)
       \o entries[i].key \o <<"=">> \o entries[i].val
       \o QueryString(entries, i + 1)

\* The URLSearchParams after the two conditional set calls, in insertion order, and
\* const endpoint = query ? `${path}?${query}` : path
ListEndpoint(path, params) ==
  LET query == QueryString(LimitEntries(params) \o OffsetEntries(params), 1)
  IN IF query # <<>> THEN path \o <<"?">> \o query ELSE path

\* The parameters the list operations are called with.
ParamSets ==
  {[limit |-> limit, offset |-> offset] : limit \in {NoNum, Num(0), Num(100)},
                                          offset \in {NoNum, Num(0), Num(20)}}

\* One call: the operation, its parameters, and what it hands to apiFetch (the
\* path, the method, and the object whose JSON.stringify is the body, undefined
\* when it passes no body).
Op(name, args, path, method, body) ==
  [name |-> name, args |-> args, path |-> path, method |-> method, body |-> body]

\* A job or article payload as the caller passes it to createJob, updateJob or
\* createArticle, which stringify it as it is.
SomePayload == ObjV(<<Member("title", StrV("t")), Member("isActive", BoolV(TRUE))>>)

\* updateJobStatus: body: JSON.stringify({ isActive })
StatusBody(isActive) == ObjV(<<Member("isActive", BoolV(isActive))>>)

\* The exported operations.
Operations ==
  { Op("loginAdmin", NoParams, LoginPath, "POST",
       ObjV(<<Member("username", StrV("admin")), Member("password", StrV("secret"))>>)),
    Op("deleteJob", NoParams, JobsPath \o <<"/">> \o JobIdText, "DELETE", UndefinedV),
    Op("createJob", NoParams, JobsPath, "POST", SomePayload),
    Op("updateJob", NoParams, JobsPath \o <<"/">> \o JobIdText, "PATCH", SomePayload),
    Op("createArticle", NoParams, ArticlesPath, "POST", SomePayload),
    Op("deleteArticle", NoParams, ArticlesPath \o <<"/">> \o SlugText, "DELETE", UndefinedV),
    Op("fetchJobAnalytics", NoParams, AnalyticsPath \o <<"/">> \o JobIdText, "GET",
       UndefinedV) }
  \cup {Op("updateJobStatus", [isActive |-> isActive],
            JobsPath \o <<"/">> \o JobIdText \o StatusSuffix, "PATCH",
            StatusBody(isActive)) : isActive \in BOOLEAN}
  \cup {Op("fetchJobs", p, ListEndpoint(JobsPath, p), "GET", UndefinedV) : p \in ParamSets}
  \cup {Op("fetchArticles", p, ListEndpoint(ArticlesPath, p), "GET", UndefinedV) :
           p \in ParamSets}

\* apiFetch called with a path of any shape: empty, without a leading slash, with
\* one and with two.
DirectCalls ==
  {Op("apiFetch", NoParams, path, "GET", UndefinedV) :
     path \in { <<>>, <<"/">>, <<"j", "o", "b", "s">>, JobsPath, <<"/">> \o JobsPath,
                <<"j", "o", "b", "s", "/">> }}

NoRequest ==
  [issued |-> FALSE, url |-> <<>>, method |-> "", contentType |-> "", body |-> UndefinedV,
   cache |-> ""]

\* The request apiFetch builds: no operation passes headers or skipContentType, so a
\* body gets Content-Type: application/json; cache is always "no-store".
RequestOf(op, url) ==
  [issued |-> TRUE, url |-> url, method |-> op.method,
   contentType |-> IF op.body # UndefinedV THEN "application/json" ELSE "",
   body |-> op.body,
   cache |-> "no-store"]

NoResult == [kind |-> "none", status |-> 0, message |-> "", payload |-> UndefinedV]

\* new ApiError(message, status)
ApiError(message, status) ==
  [kind |-> "ApiError", status |-> status, message |-> message, payload |-> UndefinedV]

\* Any other error: it has a message and no status.
Thrown(kind, message) ==
  [kind |-> kind, status |-> 0, message |-> message, payload |-> UndefinedV]

\* A normal return.
Returned(v) == [kind |-> "value", status |-> 0, message |-> "", payload |-> v]

\* String(x) for the values a payload's error member can hold.
StringOf(v) ==
  IF v.t \in {"str", "bool"} THEN v.s
  ELSE IF v.t = "null" THEN "null"
  ELSE IF v.t = "undefined" THEN "undefined"
  ELSE "[object Object]"

HasMember(v, k) == v.t = "obj" /\ \E i \in 1..Len(v.m) : v.m[i].k = k

\* response.ok
IsOk(status) == status >= 200 /\ status <= 299

\* apiFetch from the response on.  resp.json says whether Content-Type includes
\* application/json: the payload is then what response.json() parses, or that call
\* rejects with a SyntaxError (wellFormed = FALSE); otherwise it is the body text.
SettleOf(resp) ==
  IF resp.json /\ ~resp.wellFormed
  THEN Thrown("SyntaxError", "Unexpected end of JSON input")
  ELSE IF ~IsOk(resp.status)
  THEN LET chosen ==
             IF resp.json /\ HasMember(resp.payload, "error")
             THEN StringOf(Lookup(resp.payload.m, "error", Len(resp.payload.m)))
             ELSE resp.statusText
       IN ApiError(IF chosen # "" THEN chosen ELSE "Unexpected API error", resp.status)
  ELSE Returned(resp.payload)

\* loginAdmin that throws with the status of the response it received.
LoginAdminResultTransportStatus(fetched, transportStatus) ==
  IF fetched.kind # "value" THEN fetched
  ELSE LET data == fetched.payload
           adminV == OptionalGet(data, "admin")
           message == OptionalGet(data, "message")
       IN IF ~Truthy(OptionalGet(data, "success")) \/ ~Truthy(OptionalGet(adminV, "username"))
          THEN ApiError(IF Truthy(message) THEN StringOf(message) ELSE "Failed to sign in",
                        transportStatus)
          ELSE Returned(adminV)

\* loginAdmin that looks at success alone.
LoginAdminResultSuccessOnly(fetched, transportStatus) ==
  IF fetched.kind # "value" THEN fetched
  ELSE LET data == fetched.payload
           adminV == OptionalGet(data, "admin")
           message == OptionalGet(data, "message")
       IN IF ~Truthy(OptionalGet(data, "success"))
          THEN ApiError(IF Truthy(message) THEN StringOf(message) ELSE "Failed to sign in", 400)
          ELSE Returned(adminV)

\* loginAdmin after its await: an error of apiFetch passes through;
\* if (!data?.success || !data.admin?.username) throw new ApiError(..., 400).
LoginAdminResult(fetched, transportStatus) ==
  IF fetched.kind # "value" THEN fetched
  ELSE LET data == fetched.payload
           adminV == OptionalGet(data, "admin")
           message == OptionalGet(data, "message")
       IN IF ~Truthy(OptionalGet(data, "success")) \/ ~Truthy(OptionalGet(adminV, "username"))
          THEN ApiError(IF Truthy(message) THEN StringOf(message) ELSE "Failed to sign in", 400)
          ELSE Returned(adminV)

\* A list operation that validates the envelope the way loginAdmin does.
ListResultChecksSuccess(key, fetched) ==
  IF fetched.kind # "value" THEN fetched
  ELSE IF Nullish(fetched.payload) THEN Thrown("TypeError", "Cannot read properties of null")
  ELSE IF ~Truthy(OptionalGet(fetched.payload, "success"))
  THEN ApiError("Failed to load", 400)
  ELSE Returned(ObjV(<<Member(key, OptionalGet(fetched.payload, "data")),
                       Member("pagination", OptionalGet(fetched.payload, "pagination"))>>))

\* fetchJobs / fetchArticles after the await:
\* return { [key]: payload.data, pagination: payload.pagination }.
ListResult(key, fetched) ==
  IF fetched.kind # "value" THEN fetched
  ELSE IF Nullish(fetched.payload) THEN Thrown("TypeError", "Cannot read properties of null")
  ELSE Returned(ObjV(<<Member(key, OptionalGet(fetched.payload, "data")),
                       Member("pagination", OptionalGet(fetched.payload, "pagination"))>>))

\* The operations that return payload.data.
DataResult(fetched) ==
  IF fetched.kind # "value" THEN fetched
  ELSE IF Nullish(fetched.payload) THEN Thrown("TypeError", "Cannot read properties of null")
  ELSE Returned(OptionalGet(fetched.payload, "data"))

\* deleteJob / deleteArticle: the payload is dropped.
VoidResult(fetched) ==
  IF fetched.kind # "value" THEN fetched ELSE Returned(UndefinedV)

\* What operation name makes of what its apiFetch call returned or threw.
OperationResult(name, fetched, transportStatus) ==
  IF name = "loginAdmin" THEN LoginAdminResult(fetched, transportStatus)
  ELSE IF name = "fetchJobs" THEN ListResult("jobs", fetched)
  ELSE IF name = "fetchArticles" THEN ListResult("articles", fetched)
  ELSE IF name \in {"deleteJob", "deleteArticle"} THEN VoidResult(fetched)
  ELSE IF name = "apiFetch" THEN fetched
  ELSE DataResult(fetched)

Statuses == {200, 404, 500}

StatusTexts == {"", "Not Found"}

Rows == StrV("rows")

Page == ObjV(<<Member("total", StrV("1"))>>)

\* The JSON bodies the backend sends: those of a failing endpoint, those of the
\* login endpoint, the envelopes of the list and mutation endpoints, and null.
JsonPayloads ==
  { ObjV(<<Member("error", StrV("Not found"))>>),
    ObjV(<<Member("error", StrV(""))>>),
    ObjV(<<Member("error", NullV)>>),
    ObjV(<<Member("message", StrV("bad credentials"))>>),
    ObjV(<<Member("success", BoolV(TRUE)), Member("admin", AdminSession("a"))>>),
    ObjV(<<Member("success", BoolV(TRUE)), Member("admin", AdminSession(""))>>),
    ObjV(<<Member("success", BoolV(TRUE)), Member("admin", NullV)>>),
    ObjV(<<Member("success", BoolV(TRUE)), Member("message", StrV("bad credentials"))>>),
    ObjV(<<Member("success", BoolV(FALSE)), Member("message", StrV("bad credentials"))>>),
    ObjV(<<Member("success", BoolV(FALSE)), Member("admin", AdminSession("a"))>>),
    ObjV(<<Member("success", BoolV(FALSE))>>),
    ObjV(<<Member("admin", AdminSession("b"))>>),
    ObjV(<<Member("success", BoolV(TRUE)), Member("data", Rows), Member("pagination", Page)>>),
    ObjV(<<Member("success", BoolV(FALSE)), Member("data", Rows), Member("pagination", Page)>>),
    ObjV(<<Member("success", BoolV(TRUE)), Member("data", Rows)>>),
    NullV }

TextPayloads == {StrV("Internal Server Error")}

\* The responses the backend can give: a JSON body that parses, a body announced as
\* JSON that does not parse, and a plain-text body.
Responses ==
  {[status |-> st, statusText |-> tx, json |-> TRUE, wellFormed |-> TRUE, payload |-> pl] :
     st \in Statuses, tx \in StatusTexts, pl \in JsonPayloads}
  \cup
  {[status |-> st, statusText |-> tx, json |-> TRUE, wellFormed |-> FALSE,
    payload |-> UndefinedV] : st \in Statuses, tx \in StatusTexts}
  \cup
  {[status |-> st, statusText |-> tx, json |-> FALSE, wellFormed |-> TRUE, payload |-> pl] :
     st \in Statuses, tx \in StatusTexts, pl \in TextPayloads}

\* No response yet.
NoResponse ==
  [status |-> 0, statusText |-> "", json |-> FALSE, wellFormed |-> TRUE, payload |-> UndefinedV]

\* lib/api and its environment untouched: the state of the API variables in a
\* specification that is not about them.
ApiAtRest ==
  /\ envPrimary = Unset
  /\ envFallback = Unset
  /\ apiLoaded = FALSE
  /\ apiBase = <<>>
  /\ apiPhase = "idle"
  /\ apiOp = ""
  /\ apiRequest = NoRequest
  /\ apiResult = NoResult
  /\ apiPath = <<>>
  /\ apiArgs = NoParams
  /\ lastResponse = NoResponse
  /\ opResult = NoResult

(***************************************************************************)
(* The jobs page (app/admin/jobs/page.tsx) and its form.                   *)
(***************************************************************************)

\* A job, as far as the page looks into it; selectedJob's null is the job with id 0.
Job(id, isActive, tech) == [id |-> id, isActive |-> isActive, tech |-> tech]

NoJob == Job(0, FALSE, <<>>)

RECURSIVE Split(_)
\* String.prototype.split(","): the pieces between the commas, empty ones included.
Split(s) ==
  IF s = <<>> THEN << <<>> >>
  ELSE LET before == Split(SubSeq(s, 1, Len(s) - 1))
           c == s[Len(s)]
       IN IF c = "," THEN Append(before, <<>>)
          ELSE [before EXCEPT ![Len(before)] = Append(@, c)]

\* TechArray without the map: the pieces are filtered as they are.
TechArrayUntrimmed(tech) == SelectSeq(Split(tech), LAMBDA t : Len(t) > 0)

\* handleSubmitJob: values.tech.split(",").map((t) => t.trim()).filter((t) => t.length > 0)
TechArray(tech) ==
  LET pieces == Split(tech)
      trimmed == [i \in 1..Len(pieces) |-> Trim(pieces[i])]
  IN SelectSeq(trimmed, LAMBDA t : Len(t) > 0)

\* handleSubmitJob's payload, of which the model follows tech: techArray and
\* isActive: values.isActive.
PayloadBody(tech, isActive) ==
  ObjV(<<Member("tech", [t |-> "arr", s |-> "", m |-> TechArray(tech)]),
         Member("isActive", BoolV(isActive))>>)

\* The map of handleToggleStatus that sets the flag of every item.
WithStatusOfAll(list, id, updated) ==
  [i \in 1..Len(list) |->
     [list[i] EXCEPT !.isActive = IF "isActive" \in DOMAIN updated THEN updated.isActive
                                  ELSE ~list[i].isActive]]

\* prev.map((item) =>
\*   (item.id === id ? { ...item, isActive: updated.isActive ?? !item.isActive } : item))
\* where updated has no isActive when the backend's job carries none.
WithStatus(list, id, updated) ==
  [i \in 1..Len(list) |->
     IF list[i].id = id
     THEN [list[i] EXCEPT !.isActive = IF "isActive" \in DOMAIN updated THEN updated.isActive
                                       ELSE ~list[i].isActive]
     ELSE list[i]]

\* prev.map((item) => (item.id === id ? job : item))
WithJob(list, id, job) ==
  [i \in 1..Len(list) |-> IF list[i].id = id THEN job ELSE list[i]]

\* prev.filter((item) => item.id !== id)
Without(list, id) == SelectSeq(list, LAMBDA item : item.id # id)

\* A request awaiting its response: the operation, the job it names, and the
\* response on its way (ok with the list or the job the backend returns, or an
\* error with its message).
Request(kind, id, body, ok, data, job, message) ==
  [kind |-> kind, id |-> id, body |-> body, ok |-> ok, data |-> data, job |-> job,
   message |-> message]

\* The setJobs call of the handler that awaited r, applied to the list: setJobs(jobsData),
\* the map of handleToggleStatus, the filter of handleDelete, [newJob, ...prev] and
\* the map of handleSubmitJob.
AppliedTo(list, r) ==
  CASE r.kind = "load" -> r.data
    [] r.kind = "toggle" -> WithStatus(list, r.id, r.job)
    [] r.kind = "delete" -> Without(list, r.id)
    [] r.kind = "create" -> <<r.job>> \o list
    [] r.kind = "update" -> WithJob(list, r.id, r.job)

\* The list after r is settled: every handler calls setJobs in its try block after
\* the await, so a request that fails leaves the list alone.
ListAfter(list, r) == IF r.ok THEN AppliedTo(list, r) ELSE list

\* The message of the error a failed request ends with.
FailureMessage == "Failed to fetch"

\* JobFormModal's effect on [open, resolvedInitialValues]: in edit mode
\* getInitialValues() gives a new object in every render of the page, so a render
\* of the page while the form is open resets the form's error and submitting.
FormAfterRender(rendered, sub, err) ==
  IF rendered /\ modalOpen /\ modalMode = "edit" THEN [submitting |-> FALSE, error |-> ""]
  ELSE [submitting |-> sub, error |-> err]

\* No analytics page mounted.
AnalyticsAtRest == analyticsJobs = <<>> /\ clickDistribution = <<>>

\* No form filled in: the state of the form variables in a specification that is
\* not about them.
FormAtRest == formTech = <<>> /\ payloadTech = [built |-> FALSE, tech |-> <<>>]

\* No jobs page mounted.
JobsAtRest ==
  /\ server = <<>>
  /\ jobs = <<>>
  /\ jobsLoading = FALSE
  /\ jobsError = ""
  /\ actionJobId = 0
  /\ modalOpen = FALSE
  /\ modalMode = "create"
  /\ selectedJob = NoJob
  /\ submitting = FALSE
  /\ modalError = ""
  /\ inflight = <<>>
  /\ requests = 0

(***************************************************************************)
(* The session specification: one browser tab running the application.     *)
(***************************************************************************)

\* Requests that outlive their page are counted up to this bound.
MaxOrphans == 1

\* The page of route r after its first render, every other component unmounted.
PageLoaded(r) ==
  /\ route' = r
  /\ mounted' = [c \in Consumers |-> c = ConsumerOf(r)]
  /\ admin' = [c \in Consumers |-> NullV]
  /\ hydrated' = [c \in Consumers |-> FALSE]
  /\ runs' = [c \in Consumers |-> 0]
  /\ value' = [c \in Consumers |-> ValueMemo(NullV, FALSE)]
  /\ loading' = FALSE
  /\ loginError' = ""
  /\ calls' = MountEffect(ConsumerOf(r), ValueMemo(NullV, FALSE))
  /\ pending' = NavAfter(calls', 1, NoNav)
  /\ uncaught' = "none"

Init ==
  /\ storageDenied \in BOOLEAN
  /\ storage \in InitialItems
  /\ route \in Routes
  /\ mounted = [c \in Consumers |-> c = ConsumerOf(route)]
  /\ admin = [c \in Consumers |-> NullV]
  /\ hydrated = [c \in Consumers |-> FALSE]
  /\ runs = [c \in Consumers |-> 0]
  /\ value = [c \in Consumers |-> ValueMemo(NullV, FALSE)]
  /\ loading = FALSE
  /\ loginError = ""
  /\ loginReq = FALSE
  /\ orphans = 0
  /\ calls = MountEffect(ConsumerOf(route), ValueMemo(NullV, FALSE))
  /\ pending = NavAfter(calls, 1, NoNav)
  /\ uncaught = "none"
  /\ lastSet = NoSet
  /\ prevSet = NoSet
  /\ ApiAtRest
  /\ FormAtRest
  /\ JobsAtRest
  /\ AnalyticsAtRest

\* The state updates of consumer c's handler or effect, the render they cause (the
\* value memo is recomputed when admin or hydrated changed), and the redirect effect
\* of that render.
Render(c, a, h, stepCalls) ==
  LET new == IF a = admin[c] /\ h = hydrated[c] THEN value[c] ELSE ValueMemo(a, h)
      all == stepCalls \o RedirectEffect(c, value[c], new)
  IN /\ admin' = [admin EXCEPT ![c] = a]
     /\ hydrated' = [hydrated EXCEPT ![c] = h]
     /\ value' = [value EXCEPT ![c] = new]
     /\ calls' = all
     /\ pending' = NavAfter(all, 1, pending)

Recorded(r, session) ==
  IF r.threw = "" THEN lastSet' = DidSet(session) /\ prevSet' = lastSet
  ELSE UNCHANGED <<lastSet, prevSet>>

\* The hydration effect of consumer c.
Hydrate(c) ==
  /\ HydrationEffectDue(c)
  /\ LET r == HydrationEffect(storage, storageDenied, admin[c])
     IN /\ Render(c, r.admin, r.hydrated, r.calls)
        /\ uncaught' = r.uncaught
  /\ runs' = [runs EXCEPT ![c] = @ + 1]
  /\ UNCHANGED <<analyticsVars, formVars, jobsVars, apiVars, storageDenied, storage, route, mounted, loading, loginError,
                 loginReq, orphans, lastSet, prevSet>>

\* Handlers run once the mount effects have: React flushes them before an event.
Interactive(c) == mounted[c] /\ runs[c] > 0

\* LoginSubmit for a handler without `if (!username || !password) return`.
LoginSubmitUnchecked(u, p) ==
  /\ Interactive("login")
  /\ ~loading
  /\ orphans < MaxOrphans
  /\ loading' = TRUE /\ loginError' = "" /\ loginReq' = TRUE
  /\ calls' = <<>>
  /\ uncaught' = "none"
  /\ UNCHANGED <<analyticsVars, formVars, jobsVars, apiVars, storageDenied, storage, route, pending, mounted, admin, hydrated,
                 runs, value, orphans, lastSet, prevSet>>

\* AdminLoginPage.handleSubmit up to its await.
LoginSubmit(u, p) ==
  /\ Interactive("login")
  /\ ~loading
  /\ orphans < MaxOrphans
  /\ IF u = "" \/ p = ""
     THEN UNCHANGED <<loading, loginError, loginReq>>
     ELSE loading' = TRUE /\ loginError' = "" /\ loginReq' = TRUE
  /\ calls' = <<>>
  /\ uncaught' = "none"
  /\ UNCHANGED <<analyticsVars, formVars, jobsVars, apiVars, storageDenied, storage, route, pending, mounted, admin, hydrated,
                 runs, value, orphans, lastSet, prevSet>>

\* handleSubmit after loginAdmin returned session: setSession, router.push, and the
\* catch around both; finally setLoading(false).
LoginResolve(session) ==
  /\ loginReq
  /\ LET r == LoginHandler(session, storage, storageDenied, admin["login"])
     IN /\ storage' = r.storage
        /\ Render("login", r.admin, hydrated["login"], r.calls)
        /\ loginError' = (IF r.threw = "" THEN loginError ELSE r.threw)
        /\ Recorded(r, session)
  /\ loading' = FALSE
  /\ loginReq' = FALSE
  /\ uncaught' = "none"
  /\ UNCHANGED <<analyticsVars, formVars, jobsVars, apiVars, storageDenied, route, mounted, runs, orphans>>

\* handleSubmit after loginAdmin threw.
LoginReject(message) ==
  /\ loginReq
  /\ loginError' = message
  /\ loading' = FALSE
  /\ loginReq' = FALSE
  /\ calls' = <<>>
  /\ uncaught' = "none"
  /\ UNCHANGED <<analyticsVars, formVars, jobsVars, apiVars, storageDenied, storage, route, pending, mounted, admin, hydrated,
                 runs, value, orphans, lastSet, prevSet>>

\* The same continuation when the login page has unmounted meanwhile: its state
\* updates reach no component, its storage and router calls still happen.
OrphanResolve(session) ==
  /\ orphans > 0
  /\ orphans' = orphans - 1
  /\ LET r == LoginHandler(session, storage, storageDenied, NullV)
     IN /\ storage' = r.storage
        /\ calls' = r.calls
        /\ pending' = NavAfter(r.calls, 1, pending)
        /\ Recorded(r, session)
  /\ uncaught' = "none"
  /\ UNCHANGED <<analyticsVars, formVars, jobsVars, apiVars, storageDenied, route, mounted, admin, hydrated, runs, value,
                 loading, loginError, loginReq>>

OrphanReject ==
  /\ orphans > 0
  /\ orphans' = orphans - 1
  /\ calls' = <<>>
  /\ uncaught' = "none"
  /\ UNCHANGED <<analyticsVars, formVars, jobsVars, apiVars, storageDenied, storage, route, pending, mounted, admin, hydrated,
                 runs, value, loading, loginError, loginReq, lastSet, prevSet>>

\* What AdminLayout returns: the loading text while !hydrated, null while
\* !isAuthenticated, else the sidebar, the header and its children.
LayoutView(val) ==
  IF ~val.hydrated THEN "placeholder"
  ELSE IF ~val.isAuthenticated THEN "nothing"
  ELSE "children"

\* AdminLayout shows its sidebar and children only past both of its guards.
LayoutVisible == mounted["layout"] /\ LayoutView(value["layout"]) = "children"

\* The sidebar's logout button.
Logout ==
  /\ LayoutVisible
  /\ LET r == LogoutHandler(storage, storageDenied, admin["layout"])
     IN /\ storage' = r.storage
        /\ Render("layout", r.admin, hydrated["layout"], r.calls)
        /\ uncaught' = (IF r.threw = "" THEN "none" ELSE r.threw)
        /\ Recorded(r, NullV)
  /\ UNCHANGED <<analyticsVars, formVars, jobsVars, apiVars, storageDenied, route, mounted, runs, loading, loginError,
                 loginReq, orphans>>

\* One of the sidebar's links.
LinkNavigate(href) ==
  /\ LayoutVisible
  /\ href # route
  /\ pending' = NavTo(href)
  /\ calls' = <<>>
  /\ uncaught' = "none"
  /\ UNCHANGED <<analyticsVars, formVars, jobsVars, apiVars, storageDenied, storage, route, mounted, admin, hydrated, runs,
                 value, loading, loginError, loginReq, orphans, lastSet, prevSet>>

\* The router commits the pending navigation: the old page unmounts, the new one
\* mounts with fresh state.  A request in flight is not cancelled.
NavCommit ==
  /\ pending.set
  /\ PageLoaded(pending.to)
  /\ loginReq' = FALSE
  /\ orphans' = IF loginReq THEN orphans + 1 ELSE orphans
  /\ UNCHANGED <<analyticsVars, formVars, jobsVars, apiVars, storageDenied, storage, lastSet, prevSet>>

\* The user reloads the tab or opens a route: nothing but localStorage survives.
Reload(r) ==
  /\ PageLoaded(r)
  /\ loginReq' = FALSE
  /\ orphans' = 0
  /\ UNCHANGED <<analyticsVars, formVars, jobsVars, apiVars, storageDenied, storage, lastSet, prevSet>>

Next ==
  \/ \E c \in Consumers : Hydrate(c)
  \/ \E u \in {"", "admin"}, p \in {"", "secret"} : LoginSubmit(u, p)
  \/ \E s \in LoginIdentities : LoginResolve(s)
  \/ \E msg \in LoginFailures : LoginReject(msg)
  \/ \E s \in LoginIdentities : OrphanResolve(s)
  \/ OrphanReject
  \/ Logout
  \/ \E href \in NavItems : LinkNavigate(href)
  \/ NavCommit
  \/ \E r \in Routes : Reload(r)

Spec == Init /\ [][Next]_vars

(***************************************************************************)
(* Properties of the session store.                                        *)
(***************************************************************************)

\* The last step was a hydration effect: only it calls getItem.
JustHydrated == Len(calls) > 0 /\ calls[1].op = "getItem"

\* The last step completed a saveSession(session) with a non-null session.
JustSaved == Len(calls) > 0 /\ calls[1].op = "setItem"

\* The item cannot be restored: reading it throws, or it is not JSON.
Unrestorable ==
  \/ storageDenied
  \/ storage.present /\ storage.text # <<>> /\ ~JSONParse(storage.text).ok

\* v is a record whose username is a non-empty string.
HasUsername(v) ==
  /\ v.t = "obj"
  /\ \E i \in 1..Len(v.m) : v.m[i].k = "username" /\ v.m[i].v.t = "str" /\ v.m[i].v.s # ""

\* C1: the hydration effect lets no error escape and leaves the store hydrated; when
\* the item is not JSON or reading it throws, the store is hydrated-unauthenticated.
C1_HydrateNeverFails ==
  \A c \in Consumers :
    (mounted[c] /\ runs[c] > 0) =>
      /\ hydrated[c]
      /\ value[c].hydrated
      /\ JustHydrated => uncaught = "none"
      /\ Unrestorable => (admin[c] = NullV /\ ~value[c].isAuthenticated)

C1_Witness ==
  \E c \in Consumers :
    /\ mounted[c] /\ runs[c] = 1 /\ JustHydrated
    /\ ~storageDenied /\ storage.present /\ storage.text # <<>>
    /\ ~JSONParse(storage.text).ok
    /\ Len(calls) = 2 /\ calls[2].op = "warn"

\* C2: the isAuthenticated a consumer reads is true exactly when its store is
\* hydrated and holds a session; before the hydration effect has run it is false,
\* whatever the item holds.
C2_IsAuthenticated ==
  \A c \in Consumers :
    /\ value[c].isAuthenticated <=> (hydrated[c] /\ admin[c] # NullV)
    /\ (mounted[c] /\ runs[c] = 0) => ~value[c].isAuthenticated

C2_Witness ==
  \E c \in Consumers :
    /\ mounted[c] /\ runs[c] = 0
    /\ ~storageDenied
    /\ storage = Item(JSONStringify(AdminSession("a")))

\* C3: a setSession(s) with a non-null s that returns (storage can be written)
\* leaves the item holding the serialisation of s, which parses back to s, and
\* leaves the store it was called on, the mounted login page's, hydrated and
\* authenticated with admin = s.
C3_SetSessionPersists ==
  [][\A s \in LoginIdentities :
       /\ (LoginResolve(s) /\ ~storageDenied) =>
            /\ storage' = Item(JSONStringify(s))
            /\ JSONParse(storage'.text) = [ok |-> TRUE, v |-> s]
            /\ admin'["login"] = s
            /\ hydrated'["login"]
            /\ value'["login"] = [admin |-> s, hydrated |-> TRUE, isAuthenticated |-> TRUE]
       /\ (OrphanResolve(s) /\ ~storageDenied) =>
            /\ storage' = Item(JSONStringify(s))
            /\ JSONParse(storage'.text) = [ok |-> TRUE, v |-> s]]_vars

C3_Witness ==
  /\ JustSaved
  /\ mounted["login"]
  /\ lastSet.set /\ admin["login"] = lastSet.v
  /\ storage = Item(UsernameText(Lit("b")))
  /\ value["login"].isAuthenticated

\* C4: when the tab's last saveSession was saveSession(null) and the one before it
\* saved a session, the item is gone and every store that has hydrated, a fresh one
\* included, is hydrated-unauthenticated.
C4_ClearedSessionStaysCleared ==
  (lastSet = DidSet(NullV) /\ prevSet.set /\ prevSet.v # NullV) =>
    /\ storage = NoItem
    /\ \A c \in Consumers :
         (mounted[c] /\ runs[c] > 0) =>
           (admin[c] = NullV /\ hydrated[c] /\ ~value[c].isAuthenticated)

C4_Witness ==
  /\ lastSet = DidSet(NullV) /\ prevSet.set /\ prevSet.v # NullV
  /\ mounted["login"] /\ runs["login"] = 1 /\ JustHydrated
  /\ hydrated["login"] /\ admin["login"] = NullV

\* C5: logout does what saveSession(null) does and then pushes the login route: the
\* item is removed and admin cleared, removeItem comes before push, and hydrated and
\* the other consumer's store keep their values.
C5_LogoutIsClearThenNavigate ==
  [][Logout =>
       LET r == SaveSession(NullV, storage, storageDenied, admin["layout"])
       IN /\ storage' = NoItem /\ storage' = r.storage
          /\ admin'["layout"] = NullV /\ admin'["layout"] = r.admin
          /\ admin'["login"] = admin["login"]
          /\ hydrated' = hydrated
          /\ Len(calls') >= 2
          /\ calls'[1] = Call("removeItem", STORAGE_KEY)
          /\ calls'[2] = Call("push", LoginRoute)
          /\ \A i \in 1..Len(calls') : IsNav(calls'[i]) => i > 1
          /\ pending' = NavTo(LoginRoute)
          /\ uncaught' = "none"]_vars

C5_Witness ==
  /\ mounted["layout"] /\ hydrated["layout"] /\ admin["layout"] = NullV
  /\ storage = NoItem
  /\ Len(calls) >= 2
  /\ calls[1] = Call("removeItem", STORAGE_KEY)
  /\ calls[2] = Call("push", LoginRoute)
  /\ pending = NavTo(LoginRoute)

\* The item a completed saveSession(v) leaves behind.
ItemAfter(v) == IF v = NullV THEN NoItem ELSE Item(JSONStringify(v))

C7_HydratesOnce ==
  [][\A c \in Consumers :
       (mounted[c] /\ runs[c] > 0 /\ mounted'[c] /\ runs'[c] > 0) =>
         /\ runs'[c] = runs[c]
         /\ hydrated[c] => hydrated'[c]
         /\ admin'[c] # admin[c] =>
              (Len(calls') > 0 /\ calls'[1].op \in {"setItem", "removeItem"})]_vars

C7_Witness ==
  /\ mounted["login"] /\ runs["login"] = 1 /\ hydrated["login"]
  /\ JustSaved
  /\ admin["login"] # NullV

\* C8: with the item as getItem returns it, the hydration effect ends
\* hydrated-authenticated exactly when the item parses to a record whose username
\* is a non-empty string, and admin is then that record; in every other case
\* (no item, no JSON, a value without a username, an empty username, storage that
\* cannot be read) it ends hydrated-unauthenticated.
C8_HydrateOutcome ==
  \A c \in Consumers :
    (mounted[c] /\ JustHydrated) =>
      LET readable == ~storageDenied /\ storage.present
          p == IF readable THEN JSONParse(storage.text) ELSE ParseFail
      IN /\ hydrated[c]
         /\ value[c].isAuthenticated <=> (p.ok /\ HasUsername(p.v))
         /\ admin[c] = (IF p.ok /\ HasUsername(p.v) THEN p.v ELSE NullV)

C8_Witness ==
  \E c \in Consumers :
    /\ mounted[c] /\ JustHydrated
    /\ value[c].isAuthenticated
    /\ Len(admin[c].m) = 2
    /\ JSONParse(storage.text).v = admin[c]

(***************************************************************************)
(* The base-URL specification: lib/api is evaluated once, under an         *)
(* environment drawn from short strings.                                   *)
(***************************************************************************)

\* No page loaded: the state of the session variables in a specification that is
\* not about them.
SessionAtRest ==
  /\ storageDenied = FALSE
  /\ storage = NoItem
  /\ route = LoginRoute
  /\ pending = NoNav
  /\ mounted = [c \in Consumers |-> FALSE]
  /\ admin = [c \in Consumers |-> NullV]
  /\ hydrated = [c \in Consumers |-> FALSE]
  /\ runs = [c \in Consumers |-> 0]
  /\ value = [c \in Consumers |-> ValueMemo(NullV, FALSE)]
  /\ loading = FALSE
  /\ loginError = ""
  /\ loginReq = FALSE
  /\ orphans = 0
  /\ calls = <<>>
  /\ uncaught = "none"
  /\ lastSet = NoSet
  /\ prevSet = NoSet

\* An environment value is made of at most this many pieces.
MaxParts == 3

MaxFallbackParts == 1

\* The pieces: a host, a slash, a blank, and api with and without its slash.
Pieces == {<<"h">>, <<"/">>, <<" ">>, <<"a", "p", "i">>, ApiSuffix}

RECURSIVE Concats(_)
\* The strings made of at most n pieces.
Concats(n) ==
  IF n = 0 THEN {<<>>}
  ELSE LET shorter == Concats(n - 1)
       IN shorter \cup {s \o piece : s \in shorter, piece \in Pieces}

EnvValues(n) == {Unset} \cup {EnvValue(s) : s \in Concats(n)}

InitBase ==
  /\ SessionAtRest
  /\ AnalyticsAtRest
  /\ FormAtRest
  /\ JobsAtRest
  /\ envPrimary \in EnvValues(MaxParts)
  /\ envFallback \in EnvValues(MaxFallbackParts)
  /\ apiLoaded = FALSE
  /\ apiBase = <<>>
  /\ apiPhase = "idle"
  /\ apiOp = ""
  /\ apiRequest = NoRequest
  /\ apiResult = NoResult
  /\ apiPath = <<>>
  /\ apiArgs = NoParams
  /\ lastResponse = NoResponse
  /\ opResult = NoResult

\* The module's top-level constants are computed when it is first imported.
LoadModule ==
  /\ ~apiLoaded
  /\ apiLoaded' = TRUE
  /\ apiBase' = Normalize(RawBase(envPrimary, envFallback))
  /\ UNCHANGED <<analyticsVars, formVars, jobsVars, sessionVars, envPrimary, envFallback, apiPhase, apiOp, apiRequest,
                 apiResult, apiPath, apiArgs, lastResponse, opResult>>

NextBase == LoadModule

SpecBase == InitBase /\ [][NextBase]_vars

(***************************************************************************)
(* The transport specification: the loaded module serving one call of      *)
(* apiFetch at a time.                                                     *)
(***************************************************************************)
\* The environments the transport is exercised under, as <<primary, fallback>>:
\* nothing configured, blank values, a host in either variable, a host with its
\* /api suffix and a trailing slash, and a lone slash.
ApiEnvironments ==
  { <<Unset, Unset>>,
    <<EnvValue(<<" ">>), EnvValue(<<>>)>>,
    <<EnvValue(<<"h">>), Unset>>,
    <<Unset, EnvValue(<<"h">> \o ApiSuffix \o <<"/">>)>>,
    <<EnvValue(<<"/">>), EnvValue(<<"h">>)>> }

InitApi ==
  /\ SessionAtRest
  /\ AnalyticsAtRest
  /\ FormAtRest
  /\ JobsAtRest
  /\ \E env \in ApiEnvironments : envPrimary = env[1] /\ envFallback = env[2]
  /\ apiLoaded = TRUE
  /\ apiBase = Normalize(RawBase(envPrimary, envFallback))
  /\ apiPhase = "idle"
  /\ apiOp = ""
  /\ apiRequest = NoRequest
  /\ apiResult = NoResult
  /\ apiPath = <<>>
  /\ apiArgs = NoParams
  /\ lastResponse = NoResponse
  /\ opResult = NoResult

\* An operation up to the await inside its apiFetch call: resolveUrl, the headers,
\* fetch.  An error of resolveUrl ends the operation.
ApiFetchStart(op) ==
  /\ apiPhase # "inflight"
  /\ apiOp' = op.name
  /\ apiArgs' = op.args
  /\ apiPath' = op.path
  /\ lastResponse' = NoResponse
  /\ LET r == ResolveUrl(apiBase, op.path)
     IN IF r.thrown
        THEN /\ apiPhase' = "done"
             /\ apiRequest' = NoRequest
             /\ apiResult' = Thrown("Error", MissingBaseMessage)
             /\ opResult' = Thrown("Error", MissingBaseMessage)
        ELSE /\ apiPhase' = "inflight"
             /\ apiRequest' = RequestOf(op, r.url)
             /\ apiResult' = NoResult
             /\ opResult' = NoResult
  /\ UNCHANGED <<analyticsVars, formVars, jobsVars, sessionVars, envPrimary, envFallback, apiLoaded, apiBase>>

\* fetch resolved with a response: the rest of apiFetch, then the rest of the
\* operation that awaited it.
ApiFetchSettle(resp) ==
  /\ apiPhase = "inflight"
  /\ apiPhase' = "done"
  /\ apiResult' = SettleOf(resp)
  /\ opResult' = OperationResult(apiOp, SettleOf(resp), resp.status)
  /\ lastResponse' = resp
  /\ UNCHANGED <<analyticsVars, formVars, jobsVars, sessionVars, envPrimary, envFallback, apiLoaded, apiBase, apiOp,
                 apiRequest, apiPath, apiArgs>>

\* fetch rejected (the network failed): neither apiFetch nor the operation has a
\* catch, the TypeError escapes both.
ApiFetchNetworkError ==
  /\ apiPhase = "inflight"
  /\ apiPhase' = "done"
  /\ apiResult' = Thrown("TypeError", "Failed to fetch")
  /\ opResult' = Thrown("TypeError", "Failed to fetch")
  /\ UNCHANGED <<analyticsVars, formVars, jobsVars, sessionVars, envPrimary, envFallback, apiLoaded, apiBase, apiOp,
                 apiRequest, apiPath, apiArgs, lastResponse>>

NextApi ==
  \/ \E op \in Operations : ApiFetchStart(op)
  \/ \E op \in DirectCalls : ApiFetchStart(op)
  \/ \E resp \in Responses : ApiFetchSettle(resp)
  \/ ApiFetchNetworkError

SpecApi == InitApi /\ [][NextApi]_vars

(***************************************************************************)
(* Properties of lib/api.                                                  *)
(***************************************************************************)

\* An environment variable that is unset, empty or all white space.
Blank(v) == ~v.set \/ Trim(v.s) = <<>>

\* C9: with both environment variables unset or blank, no call of apiFetch hands a
\* request to fetch, and every call ends with the configuration error.
C9_BlankBaseFailsFast ==
  (Blank(envPrimary) /\ Blank(envFallback)) =>
    /\ ~apiRequest.issued
    /\ apiPhase # "inflight"
    /\ apiPhase = "done" =>
         (apiResult.kind = "Error" /\ apiResult.message = MissingBaseMessage)

RECURSIVE TrailingApiSegments(_)
\* How many times /api is repeated at the end of s.
TrailingApiSegments(s) ==
  IF EndsWith(s, ApiSuffix)
  THEN 1 + TrailingApiSegments(SubSeq(s, 1, Len(s) - Len(ApiSuffix)))
  ELSE 0

\* C10 as stated: normalising API_BASE again changes nothing, and API_BASE ends in
\* exactly one /api.
C10_IdempotentExactlyOneApi ==
  apiLoaded =>
    /\ Normalize(apiBase) = apiBase
    /\ TrailingApiSegments(apiBase) = 1

\* C10 amended: normalising API_BASE again (trimmed or not) changes nothing; API_BASE
\* ends in /api and in no slash; it ends in exactly one /api when the configured
\* value, trimmed and with its trailing slashes stripped, ends in at most one, and
\* is that value unchanged when it already ends in /api.
C10_IdempotentEndsInApi ==
  apiLoaded =>
    LET stripped == NormalizedBase(RawBase(envPrimary, envFallback))
        had == TrailingApiSegments(stripped)
    IN /\ Normalize(apiBase) = apiBase
       /\ Normalize(Trim(apiBase)) = apiBase
       /\ EndsWith(apiBase, ApiSuffix)
       /\ had <= 1 => TrailingApiSegments(apiBase) = 1
       /\ had >= 1 => apiBase = stripped
       /\ had = 0 => apiBase = stripped \o ApiSuffix

C10_Witness ==
  /\ apiLoaded
  /\ envPrimary = EnvValue(<<"h">> \o ApiSuffix \o <<"/">>)
  /\ apiBase = <<"h">> \o ApiSuffix

RECURSIVE LeadingSlashes(_)
\* How many slashes s begins with.
LeadingSlashes(s) ==
  IF s # <<>> /\ Head(s) = "/" THEN 1 + LeadingSlashes(Tail(s)) ELSE 0

\* s without the slashes it begins with.
StripLeadingSlashes(s) == SubSeq(s, LeadingSlashes(s) + 1, Len(s))

FailedResponse == apiPhase = "done" /\ lastResponse.status # 0 /\ ~IsOk(lastResponse.status)

\* C12: for every response that is not 2xx, apiFetch throws an ApiError that carries
\* the status of the response and whose message is the error member of the payload
\* when the body is a JSON object with an error key, else the status text of the
\* response (never the text of the body), else the generic message.
C12_ErrorMessageOrder ==
  FailedResponse =>
    LET resp == lastResponse
        hasError == resp.json /\ resp.wellFormed /\ HasMember(resp.payload, "error")
    IN /\ apiResult.kind = "ApiError"
       /\ apiResult.status = resp.status
       /\ apiResult.message =
            (IF hasError THEN StringOf(Lookup(resp.payload.m, "error", Len(resp.payload.m)))
             ELSE IF resp.statusText # "" THEN resp.statusText
             ELSE "Unexpected API error")

\* loginAdmin has ended after a 2xx response whose body apiFetch decoded.
LoginDecoded ==
  /\ apiPhase = "done" /\ apiOp = "loginAdmin"
  /\ IsOk(lastResponse.status)
  /\ apiResult.kind = "value"

\* The body's admin.username, undefined when the body has no admin or no username.
BodyUsername == OptionalGet(OptionalGet(lastResponse.payload, "admin"), "username")

\* C13: when the login response is 2xx and its body has a falsy success or no
\* admin.username, loginAdmin throws an ApiError whose status is 400, not the
\* status of the response, and whose message is the body's message, or
\* "Failed to sign in" when the body has none.
C13_LogicalFailureIs400 ==
  (/\ LoginDecoded
   /\ \/ ~Truthy(OptionalGet(lastResponse.payload, "success"))
      \/ BodyUsername \in {UndefinedV, NullV, StrV("")})
  => /\ opResult.kind = "ApiError"
     /\ opResult.status = 400
     /\ opResult.status # lastResponse.status
     /\ opResult.message =
          (IF HasMember(lastResponse.payload, "message")
           THEN Lookup(lastResponse.payload.m, "message", Len(lastResponse.payload.m)).s
           ELSE "Failed to sign in")

C13_Witness ==
  /\ LoginDecoded
  /\ lastResponse.status = 200
  /\ lastResponse.payload =
       ObjV(<<Member("success", BoolV(FALSE)), Member("message", StrV("bad credentials"))>>)
  /\ opResult = ApiError("bad credentials", 400)

\* C14: loginAdmin returns exactly when the response is 2xx and its body has a
\* truthy success and an admin whose username is a non-empty string; it then
\* returns that admin, so every identity it returns has a non-empty username.
C14_ReturnsExactlyOnValidLogin ==
  (apiPhase = "done" /\ apiOp = "loginAdmin") =>
    LET valid == /\ IsOk(lastResponse.status)
                 /\ lastResponse.json /\ lastResponse.wellFormed
                 /\ OptionalGet(lastResponse.payload, "success") = BoolV(TRUE)
                 /\ HasUsername(OptionalGet(lastResponse.payload, "admin"))
    IN /\ opResult.kind = "value" <=> valid
       /\ opResult.kind = "value" =>
            /\ opResult.payload = OptionalGet(lastResponse.payload, "admin")
            /\ HasUsername(opResult.payload)

C14_Witness ==
  /\ apiPhase = "done" /\ apiOp = "loginAdmin"
  /\ lastResponse.status = 200
  /\ opResult = Returned(AdminSession("a"))

\* String.prototype.includes
Includes(s, sub) ==
  \E i \in 0..(Len(s) - Len(sub)) : SubSeq(s, i + 1, i + Len(sub)) = sub

LimitParam == <<"l", "i", "m", "i", "t", "=">>

OffsetParam == <<"o", "f", "f", "s", "e", "t", "=">>

\* fetchJobs has called apiFetch.
FetchJobsCalled == apiOp = "fetchJobs" /\ apiPhase # "idle"

\* C15 as stated: the path fetchJobs requests has limit in its query string exactly
\* when limit is given and offset exactly when offset is a number, 0 included, and is
\* /jobs with no query string when neither is there; fetchJobs({offset: 0}) does not
\* request the path of fetchJobs({}).
C15_LimitWhenSet ==
  FetchJobsCalled =>
    /\ Includes(apiPath, LimitParam) <=> apiArgs.limit.set
    /\ Includes(apiPath, OffsetParam) <=> apiArgs.offset.set
    /\ (~Includes(apiPath, LimitParam) /\ ~Includes(apiPath, OffsetParam)) => apiPath = JobsPath
    /\ apiArgs = [limit |-> NoNum, offset |-> Num(0)] => apiPath # JobsPath

\* C15 amended: limit is in the query string exactly when it is a number other than
\* 0 (limit 0 is left out like a limit that is not given), offset exactly when it is
\* a number, 0 included; with neither the path is /jobs and has no "?", with any it
\* is /jobs? followed by limit=.. and offset=.. in that order, joined by &.
C15_LimitWhenNonZero ==
  FetchJobsCalled =>
    LET limit == apiArgs.limit
        offset == apiArgs.offset
        hasLimit == limit.set /\ limit.n # 0
    IN /\ Includes(apiPath, LimitParam) <=> hasLimit
       /\ Includes(apiPath, OffsetParam) <=> offset.set
       /\ (~hasLimit /\ ~offset.set) <=> apiPath = JobsPath
       /\ Includes(apiPath, <<"?">>) <=> (hasLimit \/ offset.set)
       /\ (hasLimit /\ offset.set) =>
            apiPath = JobsPath \o <<"?">> \o LimitParam \o Digits(limit.n)
                      \o <<"&">> \o OffsetParam \o Digits(offset.n)
       /\ apiArgs = [limit |-> NoNum, offset |-> Num(0)] =>
            apiPath = JobsPath \o <<"?">> \o OffsetParam \o <<"0">>
       /\ apiArgs = [limit |-> Num(100), offset |-> NoNum] =>
            apiPath = JobsPath \o <<"?">> \o LimitParam \o <<"1", "0", "0">>
       /\ apiRequest.issued => apiRequest.url = apiBase \o apiPath

C15_Witness ==
  /\ FetchJobsCalled
  /\ apiArgs = [limit |-> NoNum, offset |-> Num(0)]
  /\ apiRequest.issued
  /\ apiRequest.url = <<"h">> \o ApiSuffix \o JobsPath \o <<"?">> \o OffsetParam \o <<"0">>

\* A list operation has ended after a 2xx response whose body is an envelope.
ListDecoded(name) ==
  /\ apiPhase = "done" /\ apiOp = name
  /\ IsOk(lastResponse.status)
  /\ lastResponse.json /\ lastResponse.wellFormed
  /\ lastResponse.payload.t = "obj"

\* C16: after a 2xx response that carries an envelope, fetchJobs and fetchArticles
\* return the envelope's data (as jobs, as articles) and its pagination as they
\* are, whatever success says; an envelope with success = false makes loginAdmin
\* throw and makes neither of them throw.
C16_ListIgnoresSuccess ==
  /\ \A name \in {"fetchJobs", "fetchArticles"} :
       ListDecoded(name) =>
         LET key == IF name = "fetchJobs" THEN "jobs" ELSE "articles"
         IN /\ opResult.kind = "value"
            /\ Len(opResult.payload.m) = 2
            /\ opResult.payload.m[1] = Member(key, OptionalGet(lastResponse.payload, "data"))
            /\ opResult.payload.m[2] =
                 Member("pagination", OptionalGet(lastResponse.payload, "pagination"))
  /\ (LoginDecoded /\ OptionalGet(lastResponse.payload, "success") = BoolV(FALSE)) =>
       opResult.kind = "ApiError"

C16_Witness ==
  /\ ListDecoded("fetchJobs")
  /\ OptionalGet(lastResponse.payload, "success") = BoolV(FALSE)
  /\ opResult = Returned(ObjV(<<Member("jobs", Rows), Member("pagination", Page)>>))

(***************************************************************************)
(* The form specification: handleSubmitJob builds the payload from form    *)
(* values whose tech is any short string.                                  *)
(***************************************************************************)

\* The tech string has at most this many characters.
MaxTechLen == 4

RECURSIVE Strings(_, _)
\* The strings over chars of at most n characters.
Strings(chars, n) ==
  IF n = 0 THEN {<<>>}
  ELSE LET shorter == Strings(chars, n - 1)
       IN shorter \cup {Append(s, c) : s \in shorter, c \in chars}

InitForm ==
  /\ SessionAtRest
  /\ AnalyticsAtRest
  /\ ApiAtRest
  /\ JobsAtRest
  /\ formTech \in Strings({"a", "b", ",", " "}, MaxTechLen)
  /\ payloadTech = [built |-> FALSE, tech |-> <<>>]

\* handleSubmitJob up to the payload (lines 112-127).
BuildPayload ==
  /\ ~payloadTech.built
  /\ payloadTech' = [built |-> TRUE, tech |-> TechArray(formTech)]
  /\ UNCHANGED <<analyticsVars, sessionVars, apiVars, jobsVars, formTech>>

NextForm == BuildPayload

SpecForm == InitForm /\ [][NextForm]_vars

\* A job has at most MaxTags tags, each of at most MaxTagLen characters.
MaxTags == 2

MaxTagLen == 3

RECURSIVE InitialTechJoinedBySpace(_)
\* InitialTech with join(" ").
InitialTechJoinedBySpace(tags) ==
  IF tags = <<>> THEN <<>>
  ELSE IF Len(tags) = 1 THEN tags[1]
  ELSE tags[1] \o <<" ">> \o InitialTechJoinedBySpace(Tail(tags))

RECURSIVE InitialTech(_)
\* getInitialValues: tech: selectedJob.tech.join(", ")
InitialTech(tags) ==
  IF tags = <<>> THEN <<>>
  ELSE IF Len(tags) = 1 THEN tags[1]
  ELSE tags[1] \o <<",", " ">> \o InitialTech(Tail(tags))

\* The tech arrays of n tags the job under edit can have: the backend's strings, any.
JobTech(n) == [1..n -> Strings({"a", ",", " "}, MaxTagLen)]

\* The edit form as it opens for a job of the list (handleOpenEditModal, then the
\* form's reset to getInitialValues()), its fields untouched.
InitEdit ==
  /\ SessionAtRest
  /\ AnalyticsAtRest
  /\ ApiAtRest
  /\ \E n \in 0..MaxTags : \E tags \in JobTech(n) :
       /\ selectedJob = Job(1, TRUE, tags)
       /\ jobs = <<selectedJob>>
       /\ server = jobs
       /\ formTech = InitialTech(tags)
  /\ modalOpen = TRUE
  /\ modalMode = "edit"
  /\ jobsLoading = FALSE
  /\ jobsError = ""
  /\ actionJobId = 0
  /\ submitting = FALSE
  /\ modalError = ""
  /\ inflight = <<>>
  /\ requests = 1
  /\ payloadTech = [built |-> FALSE, tech |-> <<>>]

SpecEdit == InitEdit /\ [][NextForm]_vars

(***************************************************************************)
(* Properties of the job form.                                             *)
(***************************************************************************)

\* s without its white space.
NoSpaces(s) == SelectSeq(s, LAMBDA c : c \notin WhiteSpace)

RECURSIVE JoinTags(_, _)
\* The tags from i on, separated by commas.
JoinTags(tags, i) ==
  IF i > Len(tags) THEN <<>>
  ELSE (IF i > 1 THEN <<",">> ELSE <<>>) \o tags[i] \o JoinTags(tags, i + 1)

RECURSIVE SqueezeCommas(_)
\* s without its trailing commas, every run of commas made one.
SqueezeCommas(s) ==
  IF s = <<>> THEN <<>>
  ELSE IF Head(s) = "," /\ (Len(s) = 1 \/ s[2] = ",") THEN SqueezeCommas(Tail(s))
  ELSE IF Head(s) = "," THEN <<",">> \o SqueezeCommas(Tail(s))
  ELSE <<Head(s)>> \o SqueezeCommas(Tail(s))

RECURSIVE DropLeadingCommas(_)
\* s without its leading commas.
DropLeadingCommas(s) ==
  IF s # <<>> /\ Head(s) = "," THEN DropLeadingCommas(Tail(s)) ELSE s

\* C17: the tech of the payload is the comma-split of the tech string, trimmed, with
\* the empty entries removed, in the order of the string: no tag is empty, has a
\* comma, or starts or ends with white space; every tag stands in the string; and
\* the tags joined by commas are the string, up to white space and spare commas.
C17_TechTags ==
  payloadTech.built =>
    LET tags == payloadTech.tech
    IN /\ \A i \in 1..Len(tags) :
            /\ tags[i] # <<>>
            /\ tags[i][1] \notin WhiteSpace
            /\ tags[i][Len(tags[i])] \notin WhiteSpace
            /\ \A j \in 1..Len(tags[i]) : tags[i][j] # ","
            /\ Includes(formTech, tags[i])
       /\ NoSpaces(JoinTags(tags, 1)) = DropLeadingCommas(SqueezeCommas(NoSpaces(formTech)))
       /\ Len(tags) = Cardinality({i \in 1..Len(Split(formTech)) :
                                     NoSpaces(Split(formTech)[i]) # <<>>})

C17_Witness ==
  /\ payloadTech.built
  /\ formTech = <<" ", "a", ",", ",">>
  /\ payloadTech.tech = << <<"a">> >>

(***************************************************************************)
(* The analytics specification: the analytics page's click distribution.   *)
(***************************************************************************)

\* The backend's list has at most this many jobs.
MaxJobs == 9

RECURSIVE TotalClicks(_)
\* metrics.totalClicks: jobs.reduce((sum, job) => sum + (job.analytics?.totalClicks ?? 0), 0)
TotalClicks(list) ==
  IF list = <<>> THEN 0
  ELSE (IF "analytics" \in DOMAIN Head(list) THEN Head(list).analytics.totalClicks ELSE 0)
       + TotalClicks(Tail(list))

\* The jobPerformance memo, of which the model follows name and clicks: the map to
\* { name: job.title, clicks: job.analytics?.totalClicks ?? 0 }, the sort by
\* (a, b) => b.clicks - a.clicks (most clicks first, entries of equal clicks in the
\* order they had: the sort is stable) and slice(0, 8).
JobPerformance(list) ==
  LET entries == [i \in 1..Len(list) |->
                    [name |-> list[i].title,
                     clicks |-> IF "analytics" \in DOMAIN list[i]
                                THEN list[i].analytics.totalClicks ELSE 0]]
      Rank(i) == 1 + Cardinality({j \in 1..Len(entries) :
                                    \/ entries[j].clicks > entries[i].clicks
                                    \/ entries[j].clicks = entries[i].clicks /\ j < i})
      sorted == [k \in 1..Len(entries) |->
                   entries[CHOOSE i \in 1..Len(entries) : Rank(i) = k]]
  IN SubSeq(sorted, 1, IF Len(sorted) < 8 THEN Len(sorted) ELSE 8)

RECURSIVE SumOfClicks(_)
\* entries.reduce((sum, job) => sum + job.clicks, 0)
SumOfClicks(entries) ==
  IF entries = <<>> THEN 0 ELSE Head(entries).clicks + SumOfClicks(Tail(entries))

\* ClickDistribution with the remainder taken from jobPerformance's sum instead of
\* metrics.totalClicks.
ClickDistributionOfShown(list) ==
  LET performance == JobPerformance(list)
      topJobs == SubSeq(performance, 1, IF Len(performance) < 5 THEN Len(performance) ELSE 5)
      data == [i \in 1..Len(topJobs) |-> [name |-> topJobs[i].name, value |-> topJobs[i].clicks]]
      remainingClicks == SumOfClicks(performance) - SumOfClicks(topJobs)
  IN IF remainingClicks > 0
     THEN Append(data, [name |-> "Lainnya", value |-> remainingClicks])
     ELSE data

\* The clickDistribution memo, of which the model follows name and value: a slice
\* for each of jobPerformance.slice(0, 5) and, when remainingClicks > 0, "Lainnya".
ClickDistribution(list) ==
  LET performance == JobPerformance(list)
      topJobs == SubSeq(performance, 1, IF Len(performance) < 5 THEN Len(performance) ELSE 5)
      data == [i \in 1..Len(topJobs) |-> [name |-> topJobs[i].name, value |-> topJobs[i].clicks]]
      sumTopJobs == SumOfClicks(topJobs)
      remainingClicks == TotalClicks(list) - sumTopJobs
  IN IF remainingClicks > 0
     THEN Append(data, [name |-> "Lainnya", value |-> remainingClicks])
     ELSE data

\* The analytics page after its first render: no jobs, an empty distribution.
InitAnalytics ==
  /\ SessionAtRest
  /\ ApiAtRest
  /\ FormAtRest
  /\ JobsAtRest
  /\ analyticsJobs = <<>>
  /\ clickDistribution = ClickDistribution(<<>>)

\* loadData after fetchJobs({ limit: 200 }) resolved with list: setJobs(jobsData) and
\* the render that follows it.
LoadData(list) ==
  /\ analyticsJobs' = list
  /\ clickDistribution' = ClickDistribution(list)
  /\ UNCHANGED <<sessionVars, apiVars, formVars, jobsVars>>

\* The page loads its data once, in its mount effect; the backend's jobs are without
\* analytics or have been clicked once or twice.
SpecAnalytics ==
  /\ InitAnalytics
  /\ [][/\ analyticsJobs = <<>>
        /\ \E n \in 0..MaxJobs :
          \E list \in [1..n -> {[title |-> "job"],
                                [title |-> "job", analytics |-> [totalClicks |-> 1]],
                                [title |-> "job", analytics |-> [totalClicks |-> 2]]}] :
            LoadData(list)]_vars

(***************************************************************************)
(* The jobs specification: one mounted jobs page and the backend's list.   *)
(***************************************************************************)

\* The page sends at most this many requests, the load of its mount effect included.
MaxRequests == 4

\* Removing request i from the requests in flight.
Settled(i) == SubSeq(inflight, 1, i - 1) \o SubSeq(inflight, i + 1, Len(inflight))

\* fetchJobs({ limit: 100 }) sent now: the backend answers with its list, or fails.
LoadRequest(ok) ==
  Request("load", 0, UndefinedV, ok, IF ok THEN server ELSE <<>>, NoJob,
          IF ok THEN "" ELSE FailureMessage)

\* The page after its first render and its mount effect: loadJobs() is in flight.
InitJobs ==
  /\ SessionAtRest
  /\ AnalyticsAtRest
  /\ ApiAtRest
  /\ FormAtRest
  /\ server = <<Job(1, TRUE, << <<"a">> >>), Job(2, FALSE, << <<"b">> >>)>>
  /\ jobs = <<>>
  /\ jobsLoading = TRUE
  /\ jobsError = ""
  /\ actionJobId = 0
  /\ modalOpen = FALSE
  /\ modalMode = "create"
  /\ selectedJob = NoJob
  /\ submitting = FALSE
  /\ modalError = ""
  /\ \E ok \in BOOLEAN : inflight = <<LoadRequest(ok)>>
  /\ requests = 1

\* RefreshClick for a refresh button that is never disabled.
RefreshClickWhileLoading(ok) ==
  /\ ~modalOpen
  /\ requests < MaxRequests
  /\ requests' = requests + 1
  /\ jobsLoading' = TRUE
  /\ jobsError' = ""
  /\ inflight' = Append(inflight, LoadRequest(ok))
  /\ UNCHANGED <<analyticsVars, sessionVars, apiVars, formVars, submitting, modalError, server, jobs,
                 actionJobId, modalOpen, modalMode, selectedJob>>

\* The refresh button: disabled={loading}, onClick={loadJobs} up to the await.  The
\* page's buttons are under the open form's backdrop (fixed inset-0), out of reach.
RefreshClick(ok) ==
  /\ ~modalOpen
  /\ ~jobsLoading
  /\ requests < MaxRequests
  /\ requests' = requests + 1
  /\ jobsLoading' = TRUE
  /\ jobsError' = ""
  /\ inflight' = Append(inflight, LoadRequest(ok))
  /\ UNCHANGED <<analyticsVars, sessionVars, apiVars, formVars, submitting, modalError, server, jobs,
                 actionJobId, modalOpen, modalMode, selectedJob>>

\* loadJobs after its await: setJobs or setError, finally setLoading(false).
LoadResolve(i) ==
  /\ i \in 1..Len(inflight)
  /\ inflight[i].kind = "load"
  /\ inflight' = Settled(i)
  /\ jobs' = ListAfter(jobs, inflight[i])
  /\ jobsError' = (IF inflight[i].ok THEN jobsError ELSE inflight[i].message)
  /\ jobsLoading' = FALSE
  /\ LET rendered == inflight[i].ok \/ jobsLoading \/ jobsError # inflight[i].message
         form == FormAfterRender(rendered, submitting, modalError)
     IN submitting' = form.submitting /\ modalError' = form.error
  /\ UNCHANGED <<analyticsVars, sessionVars, apiVars, formVars, requests, server, actionJobId, modalOpen,
                 modalMode, selectedJob>>

\* The backend has a job with this id.
OnServer(id) == \E k \in 1..Len(server) : server[k].id = id

\* The status button of row i (disabled={actionJobId === job.id}; the rows are
\* rendered when loading is false): handleToggleStatus up to its await.  The
\* backend sets the status and returns the job (with its isActive, or without when
\* echo is false), or the request fails.
ToggleClick(i, ok, echo) ==
  /\ ~modalOpen
  /\ ~jobsLoading
  /\ i \in 1..Len(jobs)
  /\ actionJobId # jobs[i].id
  /\ requests < MaxRequests
  /\ requests' = requests + 1
  /\ ok => OnServer(jobs[i].id)
  /\ LET job == jobs[i]
         after == IF ok THEN WithStatus(server, job.id, [isActive |-> ~job.isActive])
                  ELSE server
         stored == CHOOSE item \in {after[k] : k \in 1..Len(after)} : item.id = job.id
         updated == IF ~ok THEN NoJob
                    ELSE IF echo THEN stored
                    ELSE [id |-> stored.id, tech |-> stored.tech]
     IN /\ server' = after
        /\ inflight' = Append(inflight, Request("toggle", job.id, StatusBody(~job.isActive),
                                                ok, <<>>, updated,
                                                IF ok THEN "" ELSE FailureMessage))
        /\ actionJobId' = job.id
  /\ UNCHANGED <<analyticsVars, sessionVars, apiVars, formVars, submitting, modalError, jobs, jobsLoading,
                 jobsError, modalOpen, modalMode, selectedJob>>

\* DeleteClick for rows that are rendered while loading is true.
DeleteClickWhileLoading(i, confirmed, ok) ==
  /\ ~modalOpen
  /\ i \in 1..Len(jobs)
  /\ actionJobId # jobs[i].id
  /\ confirmed => requests < MaxRequests
  /\ IF confirmed
     THEN /\ server' = (IF ok THEN Without(server, jobs[i].id) ELSE server)
          /\ inflight' = Append(inflight, Request("delete", jobs[i].id, UndefinedV, ok,
                                                  <<>>, NoJob,
                                                  IF ok THEN "" ELSE FailureMessage))
          /\ actionJobId' = jobs[i].id
          /\ requests' = requests + 1
     ELSE UNCHANGED <<server, inflight, actionJobId, requests>>
  /\ UNCHANGED <<analyticsVars, sessionVars, apiVars, formVars, submitting, modalError, jobs, jobsLoading,
                 jobsError, modalOpen, modalMode, selectedJob>>

\* The delete button of row i: handleDelete up to its await, or up to its return
\* when window.confirm is answered with no.
DeleteClick(i, confirmed, ok) ==
  /\ ~modalOpen
  /\ ~jobsLoading
  /\ i \in 1..Len(jobs)
  /\ actionJobId # jobs[i].id
  /\ confirmed => requests < MaxRequests
  /\ IF confirmed
     THEN /\ server' = (IF ok THEN Without(server, jobs[i].id) ELSE server)
          /\ inflight' = Append(inflight, Request("delete", jobs[i].id, UndefinedV, ok,
                                                  <<>>, NoJob,
                                                  IF ok THEN "" ELSE FailureMessage))
          /\ actionJobId' = jobs[i].id
          /\ requests' = requests + 1
     ELSE UNCHANGED <<server, inflight, actionJobId, requests>>
  /\ UNCHANGED <<analyticsVars, sessionVars, apiVars, formVars, submitting, modalError, jobs, jobsLoading,
                 jobsError, modalOpen, modalMode, selectedJob>>

\* ActionResolve for handlers that call setActionJobId(null) at the end of their try
\* block instead of in finally.
ActionResolveWithoutFinally(i) ==
  /\ i \in 1..Len(inflight)
  /\ inflight[i].kind \in {"toggle", "delete"}
  /\ inflight' = Settled(i)
  /\ jobs' = ListAfter(jobs, inflight[i])
  /\ jobsError' = (IF inflight[i].ok THEN jobsError ELSE inflight[i].message)
  /\ actionJobId' = (IF inflight[i].ok THEN 0 ELSE actionJobId)
  /\ LET rendered == inflight[i].ok \/ jobsError # inflight[i].message
         form == FormAfterRender(rendered, submitting, modalError)
     IN submitting' = form.submitting /\ modalError' = form.error
  /\ UNCHANGED <<analyticsVars, sessionVars, apiVars, formVars, requests, server, jobsLoading, modalOpen,
                 modalMode, selectedJob>>

\* handleToggleStatus and handleDelete after their await: setJobs or setError,
\* finally setActionJobId(null).
ActionResolve(i) ==
  /\ i \in 1..Len(inflight)
  /\ inflight[i].kind \in {"toggle", "delete"}
  /\ inflight' = Settled(i)
  /\ jobs' = ListAfter(jobs, inflight[i])
  /\ jobsError' = (IF inflight[i].ok THEN jobsError ELSE inflight[i].message)
  /\ actionJobId' = 0
  /\ LET rendered == inflight[i].ok \/ actionJobId # 0 \/ jobsError # inflight[i].message
         form == FormAfterRender(rendered, submitting, modalError)
     IN submitting' = form.submitting /\ modalError' = form.error
  /\ UNCHANGED <<analyticsVars, sessionVars, apiVars, formVars, requests, server, jobsLoading, modalOpen,
                 modalMode, selectedJob>>

\* The add button (job = NoJob, handleOpenCreateModal) and the edit button of a row
\* (handleOpenEditModal(job)); the form's effect on [open, ...] then resets it.
OpenModal(job) ==
  /\ ~modalOpen
  /\ job = NoJob \/ (~jobsLoading /\ \E i \in 1..Len(jobs) : jobs[i] = job)
  /\ modalMode' = (IF job = NoJob THEN "create" ELSE "edit")
  /\ selectedJob' = job
  /\ modalOpen' = TRUE
  /\ submitting' = FALSE
  /\ modalError' = ""
  /\ UNCHANGED <<analyticsVars, sessionVars, apiVars, formVars, requests, server, jobs, jobsLoading,
                 jobsError, actionJobId, inflight>>

\* The form's handleClose (backdrop, X and cancel button): onClose() unless a
\* submission is under way; onClose is handleCloseModal.
CloseModal ==
  /\ modalOpen
  /\ ~submitting
  /\ modalOpen' = FALSE
  /\ selectedJob' = NoJob
  /\ UNCHANGED <<analyticsVars, sessionVars, apiVars, formVars, requests, server, jobs, jobsLoading,
                 jobsError, actionJobId, modalMode, submitting, modalError, inflight>>

\* The id the backend gives the next job it creates.
NewId ==
  LET lists == <<server, jobs>>
                 \o [k \in 1..Len(inflight) |-> inflight[k].data]
                 \o [k \in 1..Len(inflight) |-> <<inflight[k].job>>]
      used == {0} \cup UNION {{lists[k][i].id : i \in 1..Len(lists[k])} : k \in 1..Len(lists)}
  IN 1 + CHOOSE n \in used : \A other \in used : other <= n

\* The form's submit button (disabled={submitting}): JobFormModal.handleSubmit and
\* handleSubmitJob up to the await of createJob or updateJob.  In edit mode
\* selectedJob is never null while the form is open.
SubmitJob(tech, isActive, ok) ==
  /\ modalOpen
  /\ ~submitting
  /\ requests < MaxRequests
  /\ requests' = requests + 1
  /\ modalMode = "create" \/ selectedJob # NoJob
  /\ submitting' = TRUE
  /\ modalError' = ""
  /\ LET id == IF modalMode = "create" THEN NewId ELSE selectedJob.id
         stored == IF ok THEN Job(id, isActive, TechArray(tech)) ELSE NoJob
         message == IF ok THEN "" ELSE FailureMessage
     IN IF modalMode = "create"
        THEN /\ server' = (IF ok THEN <<stored>> \o server ELSE server)
             /\ inflight' = Append(inflight, Request("create", 0, PayloadBody(tech, isActive),
                                                     ok, <<>>, stored, message))
        ELSE /\ ok => OnServer(id)
             /\ server' = (IF ok THEN WithJob(server, id, stored) ELSE server)
             /\ inflight' = Append(inflight, Request("update", id, PayloadBody(tech, isActive),
                                                     ok, <<>>, stored, message))
  /\ UNCHANGED <<analyticsVars, sessionVars, apiVars, formVars, jobs, jobsLoading, jobsError, actionJobId,
                 modalOpen, modalMode, selectedJob>>

\* handleSubmitJob after its await, and the rest of JobFormModal.handleSubmit: on
\* success setJobs and onClose(); on failure the error is thrown again and the form
\* shows its message and ends the submission.
SubmitResolve(i) ==
  /\ i \in 1..Len(inflight)
  /\ inflight[i].kind \in {"create", "update"}
  /\ inflight' = Settled(i)
  /\ jobs' = ListAfter(jobs, inflight[i])
  /\ IF inflight[i].ok
     THEN /\ modalOpen' = FALSE
          /\ selectedJob' = NoJob
          /\ UNCHANGED <<submitting, modalError>>
     ELSE /\ modalError' = inflight[i].message
          /\ submitting' = FALSE
          /\ UNCHANGED <<modalOpen, selectedJob>>
  /\ UNCHANGED <<analyticsVars, sessionVars, apiVars, formVars, requests, server, jobsLoading, jobsError,
                 actionJobId, modalMode>>

NextJobs ==
  \/ \E ok \in BOOLEAN : RefreshClick(ok)
  \/ \E i \in 1..MaxRequests : LoadResolve(i)
  \/ \E i \in 1..MaxRequests, ok \in BOOLEAN, echo \in BOOLEAN : ToggleClick(i, ok, echo)
  \/ \E i \in 1..MaxRequests, confirmed \in BOOLEAN, ok \in BOOLEAN : DeleteClick(i, confirmed, ok)
  \/ \E i \in 1..MaxRequests : ActionResolve(i)
  \/ \E job \in {NoJob} \cup {jobs[i] : i \in 1..Len(jobs)} : OpenModal(job)
  \/ CloseModal
  \/ \E ok \in BOOLEAN : SubmitJob(<<"a", ",", " ", "b">>, TRUE, ok)
  \/ \E i \in 1..MaxRequests : SubmitResolve(i)

SpecJobs == InitJobs /\ [][NextJobs]_vars

\* The jobs specification with every request in flight settling at some time: the
\* promise each handler awaits resolves or rejects, and its continuation then runs.
SpecJobsFair ==
  /\ SpecJobs
  /\ \A i \in 1..MaxRequests :
       /\ WF_vars(LoadResolve(i))
       /\ WF_vars(ActionResolve(i))
       /\ WF_vars(SubmitResolve(i))

\* The list requests among the requests in flight.
LoadsInFlight == {i \in 1..Len(inflight) : inflight[i].kind = "load"}

\* C18 as stated: list refreshes can be in flight concurrently, that is, while one
\* is in flight (the form is closed and the page may still send a request) the page
\* can start another.
C18_RefreshWhileRefreshing ==
  (LoadsInFlight # {} /\ ~modalOpen /\ requests < MaxRequests)
    => ENABLED (\E ok \in BOOLEAN : RefreshClick(ok))

\* C18, amended: the refresh button is disabled while loading, so at most one list
\* refresh is in flight at any time, exactly while loading is true, and there is no
\* order for two of them to resolve in.
C18_RefreshesAreSerialised ==
  /\ Cardinality(LoadsInFlight) <= 1
  /\ jobsLoading <=> LoadsInFlight # {}

\* A refresh by the button is in flight: the load of the mount effect has resolved.
C18_Witness ==
  /\ requests >= 2
  /\ jobsLoading
  /\ LoadsInFlight # {}

\* The step settles request i, a job mutation that failed.
FailedMutationSettles(i) ==
  /\ inflight[i].kind \in {"toggle", "delete", "create", "update"}
  /\ ~inflight[i].ok
  /\ inflight' = Settled(i)

\* C19: a step that settles a failed mutation leaves the jobs list as it was and
\* presents the error's message: a failed toggle or delete in the page's error
\* card, a failed create or update in the form, which stays open.
C19_FailedMutationKeepsList ==
  [][\A i \in 1..Len(inflight) :
       FailedMutationSettles(i) =>
         /\ jobs' = jobs
         /\ inflight[i].message # ""
         /\ IF inflight[i].kind \in {"toggle", "delete"}
            THEN jobsError' = inflight[i].message
            ELSE modalOpen' /\ modalError' = inflight[i].message]_vars

\* router.replace("/admin") is among the calls.
RedirectsToLogin(cs) == \E i \in 1..Len(cs) : cs[i] = Call("replace", LoginRoute)

\* C20: a mounted AdminLayout renders its children exactly when its store is
\* hydrated and authenticated; before hydration it renders the loading text and no
\* redirect to the login route has been issued; hydrated without a session it
\* renders nothing, and the step that brings it there calls router.replace("/admin"),
\* which leaves the login route as the pending navigation.
C20_LayoutGate ==
  /\ [](mounted["layout"] =>
         LET val == value["layout"]
         IN /\ val.hydrated = hydrated["layout"]
            /\ val.isAuthenticated = (hydrated["layout"] /\ admin["layout"] # NullV)
            /\ LayoutView(val) = "children" <=> (val.hydrated /\ val.isAuthenticated)
            /\ ~val.hydrated => LayoutView(val) = "placeholder" /\ ~RedirectsToLogin(calls)
            /\ (val.hydrated /\ ~val.isAuthenticated) => LayoutView(val) = "nothing")
  /\ [][LET old == value["layout"]
            new == value'["layout"]
        IN (/\ mounted'["layout"]
            /\ new.hydrated /\ ~new.isAuthenticated
            /\ ~(old.hydrated /\ ~old.isAuthenticated))
           => RedirectsToLogin(calls') /\ pending' = NavTo(LoginRoute)]_vars

\* A layout that hydrated without a session: nothing rendered, the redirect issued.
C20_Witness ==
  /\ mounted["layout"]
  /\ hydrated["layout"]
  /\ admin["layout"] = NullV
  /\ LayoutView(value["layout"]) = "nothing"
  /\ RedirectsToLogin(calls)
  /\ pending = NavTo(LoginRoute)

\* The step settles request i, a status update that succeeded.
ToggleSettles(i) ==
  /\ inflight[i].kind = "toggle"
  /\ inflight[i].ok
  /\ inflight' = Settled(i)

\* C21: the body of every status request is an object with the one member isActive,
\* a boolean; and a step that settles a successful one keeps the list's length and
\* order, leaves every other job as it was, and changes of the targeted job
\* nothing but isActive, which becomes the value the backend returned.
C21_ToggleChangesOnlyTheFlag ==
  /\ [](\A i \in 1..Len(inflight) :
          inflight[i].kind = "toggle" =>
            LET body == inflight[i].body
            IN /\ body.t = "obj"
               /\ Len(body.m) = 1
               /\ body.m[1].k = "isActive"
               /\ body.m[1].v.t = "bool")
  /\ [][\A i \in 1..Len(inflight) :
          ToggleSettles(i) =>
            /\ Len(jobs') = Len(jobs)
            /\ \A k \in 1..Len(jobs) :
                 LET old == jobs[k]
                     new == jobs'[k]
                     updated == inflight[i].job
                 IN /\ DOMAIN new = DOMAIN old
                    /\ new.id = old.id
                    /\ new.tech = old.tech
                    /\ old.id # inflight[i].id => new = old
                    /\ (old.id = inflight[i].id /\ "isActive" \in DOMAIN updated)
                         => new.isActive = updated.isActive]_vars

\* The first job's status has been switched off by its button, the second job is
\* as loaded.
C21_Witness ==
  /\ requests = 2
  /\ inflight = <<>>
  /\ Len(jobs) = 2
  /\ jobs[1] = Job(1, FALSE, << <<"a">> >>)
  /\ jobs[2] = Job(2, FALSE, << <<"b">> >>)

\* The first call of cs with this operation, 0 when there is none.
FirstCall(cs, op) ==
  IF \E i \in 1..Len(cs) : cs[i].op = op
  THEN CHOOSE i \in 1..Len(cs) : cs[i].op = op /\ \A j \in 1..(i - 1) : cs[j].op # op
  ELSE 0

\* C22: a step that issues the navigation to the dashboard by router.push has
\* called setItem before it and leaves the session in storage; and a layout that
\* hydrates while the tab's last save is a session comes out authenticated with
\* that session and issues no redirect to the login route.
C22_NoRedirectLoop ==
  [][/\ (\E i \in 1..Len(calls') : calls'[i] = Call("push", DashboardRoute)) =>
          /\ FirstCall(calls', "setItem") > 0
          /\ FirstCall(calls', "setItem") < FirstCall(calls', "push")
          /\ lastSet'.set /\ lastSet'.v # NullV
          /\ storage' = Item(JSONStringify(lastSet'.v))
     /\ (/\ lastSet.set /\ lastSet.v # NullV
         /\ mounted["layout"]
         /\ runs'["layout"] = runs["layout"] + 1) =>
          /\ value'["layout"].hydrated
          /\ value'["layout"].isAuthenticated
          /\ admin'["layout"] = lastSet.v
          /\ ~RedirectsToLogin(calls')
          /\ pending' = pending]_vars

\* The dashboard's layout has just hydrated after a login and is authenticated.
C22_Witness ==
  /\ route = DashboardRoute
  /\ lastSet.set /\ lastSet.v # NullV
  /\ JustHydrated
  /\ LayoutVisible
  /\ admin["layout"] = lastSet.v

\* Consumer c's store and the storage agree: the store has an identity exactly when
\* the storage holds a record (an item a hydration would restore), the record's
\* username being the identity's.
Agree(c) ==
  LET r == TryRestore(storage, storageDenied)
  IN /\ admin[c] # NullV <=> r.setAdmin
     /\ r.setAdmin => OptionalUsername(r.parsed) = OptionalUsername(admin[c])

\* C23: the hydration of a store makes it agree with the storage, and every step
\* after it keeps them in agreement while the store lives, its setSession and logout
\* calls included; the one step excepted is a write to the storage by another store
\* instance (the setSession of a login page that has unmounted).
C23_MemoryAgreesWithStorage ==
  [][\A c \in Consumers :
       (/\ mounted'[c] /\ hydrated'[c]
        /\ (mounted[c] /\ hydrated[c]) => Agree(c)
        /\ ~(orphans' < orphans /\ storage' # storage))
       => Agree(c)']_vars

\* The layout's store after setSession and then logout: no identity, no record.
C23_Witness ==
  /\ mounted["layout"] /\ hydrated["layout"]
  /\ prevSet.set /\ prevSet.v # NullV
  /\ lastSet = DidSet(NullV)
  /\ admin["layout"] = NullV
  /\ ~storage.present
  /\ Agree("layout")

\* The status and delete requests among the requests in flight.
MutationsInFlight == {k \in 1..Len(inflight) : inflight[k].kind \in {"toggle", "delete"}}

\* C24: while a status or delete request for a job is in flight that job's status
\* and delete buttons are disabled (actionJobId is the job's id), so no job has two
\* such requests in flight.
C24_ControlsDisabledWhileInFlight ==
  /\ \A k \in MutationsInFlight : actionJobId = inflight[k].id
  /\ \A k \in MutationsInFlight : \A l \in MutationsInFlight :
       inflight[k].id = inflight[l].id => k = l

\* A delete request for this job that the backend has carried out is in flight.
DeleteInFlight(id) ==
  \E k \in 1..Len(inflight) :
    inflight[k].kind = "delete" /\ inflight[k].id = id /\ inflight[k].ok

\* C25: a job the backend has deleted is in the local list only until its delete
\* request settles and never comes back, whatever list refreshes resolve: every
\* listed job is on the backend or has its delete still in flight.  The rows, and so
\* the delete buttons, are rendered only while loading is false, so no list refresh
\* is in flight when a delete is issued.
C25_DeletedJobDoesNotReappear ==
  /\ [](\A i \in 1..Len(jobs) : OnServer(jobs[i].id) \/ DeleteInFlight(jobs[i].id))
  /\ [][(\E k \in 1..Len(inflight') :
            inflight' = Append(inflight, inflight'[k]) /\ inflight'[k].kind = "delete")
        => LoadsInFlight = {}]_vars

\* Job 1 was deleted and a list refresh has resolved as well: job 2 is what is listed.
C25_Witness ==
  /\ ~OnServer(1)
  /\ requests = 3
  /\ inflight = <<>>
  /\ ~jobsLoading
  /\ jobs = <<Job(2, FALSE, << <<"b">> >>)>>

\* C26: when every request settles, loading is false again some time after every
\* loadJobs and actionJobId is null again some time after every status or delete
\* click, whether the request succeeds or fails.
C26_IndicatorsAreCleared ==
  /\ jobsLoading ~> ~jobsLoading
  /\ (actionJobId # 0) ~> (actionJobId = 0)

\* Two requests after the first load have settled without a trace on the backend,
\* the last failure's message is shown, and both indicators are clear.
C26_Witness ==
  /\ requests = 3
  /\ inflight = <<>>
  /\ jobsError = FailureMessage
  /\ jobs = server /\ Len(jobs) = 2
  /\ ~jobsLoading
  /\ actionJobId = 0

\* The create and update requests among the requests in flight.
SubmitsInFlight == {k \in 1..Len(inflight) : inflight[k].kind \in {"create", "update"}}

\* C27: while a submission of the form is in flight the form is open and submitting
\* (its close, cancel and backdrop clicks do nothing and its submit button is
\* disabled, so there is one submission at most); the step that settles it closes
\* the form when it succeeded, and otherwise leaves the form open with the error's
\* message and submitting false.
C27_FormLockedWhileSubmitting ==
  /\ [](SubmitsInFlight # {} =>
         /\ modalOpen /\ submitting
         /\ ~ENABLED CloseModal
         /\ Cardinality(SubmitsInFlight) = 1)
  /\ [][\A i \in SubmitsInFlight :
          inflight' = Settled(i) =>
            IF inflight[i].ok
            THEN ~modalOpen'
            ELSE modalOpen' /\ modalError' = inflight[i].message /\ ~submitting']_vars

\* C28: the step in which handleSubmit catches the error loginAdmin threw changes
\* neither a store's identity and flags nor the storage, calls neither the storage
\* nor the router, and leaves the page with the error's message and loading false;
\* a failure that reaches a login page already unmounted changes none of these
\* either.  A submission with an empty username or password sends no request and
\* changes nothing of the page.
C28_FailedLoginChangesNothing ==
  [][/\ \A msg \in LoginFailures :
          LoginReject(msg) =>
            /\ admin' = admin /\ hydrated' = hydrated /\ value' = value
            /\ storage' = storage
            /\ calls' = <<>> /\ pending' = pending /\ route' = route
            /\ loginError' = msg
            /\ ~loading' /\ ~loginReq'
     /\ OrphanReject =>
          /\ admin' = admin /\ value' = value /\ storage' = storage
          /\ calls' = <<>> /\ pending' = pending /\ route' = route
     /\ \A u \in {"", "admin"}, p \in {"", "secret"} :
          ((u = "" \/ p = "") /\ LoginSubmit(u, p)) =>
            /\ loginReq' = loginReq /\ ~loginReq'
            /\ loading' = loading /\ loginError' = loginError
            /\ admin' = admin /\ storage' = storage /\ pending' = pending]_vars

\* The login page after a sign-in that failed: no session, the message, loading false.
C28_Witness ==
  /\ route = LoginRoute /\ mounted["login"] /\ hydrated["login"]
  /\ loginError = "bad credentials"
  /\ ~loading /\ ~loginReq
  /\ admin["login"] = NullV
  /\ storage = NoItem
  /\ pending = NoNav
  /\ calls = <<>>

\* The tag is not empty, has no white space at its ends and no comma.
CleanTag(t) == t # <<>> /\ Trim(t) = t /\ \A i \in 1..Len(t) : t[i] # ","

\* C29: the payload built from the edit form of a job, its tech field as
\* getInitialValues() filled it, has the job's tech array, when every tag of the job
\* is non-empty, trimmed and without a comma.
C29_UnchangedEditKeepsTech ==
  (/\ payloadTech.built
   /\ modalMode = "edit" /\ selectedJob # NoJob
   /\ formTech = InitialTech(selectedJob.tech)
   /\ \A i \in 1..Len(selectedJob.tech) : CleanTag(selectedJob.tech[i]))
  => payloadTech.tech = selectedJob.tech

\* The payload of a job with two tags, one of them with a space inside.
C29_Witness ==
  /\ payloadTech.built
  /\ selectedJob.tech = << <<"a", "a">>, <<"a", " ", "a">> >>
  /\ formTech = <<"a", "a", ",", " ", "a", " ", "a">>
  /\ payloadTech.tech = selectedJob.tech

RECURSIVE SumOfValues(_)
\* The sum of the slices' values.
SumOfValues(slices) ==
  IF slices = <<>> THEN 0 ELSE Head(slices).value + SumOfValues(Tail(slices))

\* C30: the slices of the click distribution are the five most clicked jobs (all
\* the jobs when there are fewer) and at most one more, the remainder; their values
\* sum to the total clicks of all the jobs; the remainder slice is present exactly
\* when the jobs outside the five have clicks, and its value is positive.
C30_SlicesSumToTotal ==
  LET top == IF Len(analyticsJobs) < 5 THEN Len(analyticsJobs) ELSE 5
      n == Len(clickDistribution)
  IN /\ SumOfValues(clickDistribution) = TotalClicks(analyticsJobs)
     /\ n \in {top, top + 1}
     /\ \A i \in 1..top : clickDistribution[i].name = "job"
     /\ n = top + 1 =>
          /\ clickDistribution[n].name = "Lainnya"
          /\ clickDistribution[n].value > 0
     /\ n = top => SumOfValues(clickDistribution) = SumOfValues(SubSeq(clickDistribution, 1, top))
     /\ \A i \in 1..(n - 1) : i < top => clickDistribution[i].value >= clickDistribution[i + 1].value

\* Nine jobs, the ninth and the sixth clicked too: five slices and the remainder.
C30_Witness ==
  /\ Len(analyticsJobs) = 9
  /\ "analytics" \in DOMAIN analyticsJobs[9]
  /\ "analytics" \notin DOMAIN analyticsJobs[1]
  /\ TotalClicks(analyticsJobs) = 13
  /\ Len(clickDistribution) = 6
  /\ clickDistribution[1].value = 2
  /\ clickDistribution[6] = [name |-> "Lainnya", value |-> 3]

=============================================================================
